---------------------------- MODULE Spec2Model ----------------------------
(***************************************************************************)
(* A model of the policy domain: the event-sourced aggregates (Policy,     *)
(* PolicySet, PolicyExemption), the repositories that replay an event      *)
(* history into an aggregate, and the policy evaluator.                    *)
(*                                                                         *)
(* Timestamps (DateTime<Utc>) are naturals 0..MaxTime, Option<T> is a      *)
(* sequence of length 0 (None) or 1 (Some), Result<T, E> is a record with  *)
(* an ok flag, identifiers (Uuid newtypes) and strings are drawn from      *)
(* small sets.                                                             *)
(***************************************************************************)
EXTENDS Integers, Sequences, FiniteSets, TLC

VARIABLES
    focus,      \* which aggregate type the replay run works on
    policy,     \* aggregate.rs: Policy
    policySet,  \* aggregate.rs: PolicySet
    exemption,  \* aggregate.rs: PolicyExemption
    ret,        \* the last operation applied and what it returned
    store,      \* nats_integration.rs: the messages of the JetStream stream
    loaded,     \* what the last Repository::load read and returned
    now,        \* the clock Utc::now() reads
    registered, \* policy_evaluator.rs: PolicyEvaluator.exemptions
    evaluated,  \* what the last PolicyEvaluator::evaluate was given and returned
    resolving,  \* conflict_resolver.rs: the resolver's strategy and its last call
    saga        \* sagas: the saga instance driven by apply_event

aggregateVars == <<focus, policy, policySet, exemption>>
repositoryVars == <<store, loaded>>
evaluatorVars == <<registered, evaluated>>
serviceVars == <<resolving, saga>>
vars ==
    <<focus, policy, policySet, exemption, ret, store, loaded, now,
      registered, evaluated, resolving, saga>>

---------------------------------------------------------------------------
(* Bounds of the model *)

MaxTime == 1
MaxVersion == 2
(* The most messages the stream holds *)
MaxLog == 3
(* The most children of an And or Or expression *)
MaxChildren == 3
(* The most policies handed to evaluate_set *)
MaxMembers == 3
(* The most policies handed to the conflict resolver in one list *)
MaxPolicies == 3
(* The most approvals recorded on a saga *)
MaxApprovals == 2
(* The most findings an audit saga holds *)
MaxFindings == 2
(* The most sub-sagas of a composite saga *)
MaxSubSagas == 2

---------------------------------------------------------------------------
(* Option<T> *)

None == <<>>
Some(x) == <<x>>
Option(S) == {None} \cup {Some(x) : x \in S}

Times == 0..MaxTime
(* created_at / updated_at of the events: audit stamps no operation compares *)
AuditTimes == {MaxTime}
Versions == 0..MaxVersion

PolicyIds == {"p1", "p2"}
PolicySetIds == {"s1", "s2"}
ExemptionIds == {"e1", "e2"}
Users == {"admin"}
Names == {"created"}

(* value_objects.rs: PolicyStatus *)
PolicyStatus ==
    {"Draft", "UnderReview", "Approved", "Active", "Suspended", "Revoked", "Archived"}

---------------------------------------------------------------------------
(* events.rs: PolicyEvent, one record set per variant; the payload fields   *)
(* kept are the ones some reducer, repository or evaluator reads.          *)

EvPolicyCreated ==
    [type : {"PolicyCreated"}, policy_id : PolicyIds, name : Names,
     description : Names, created_by : Users, created_at : AuditTimes]
EvPolicyUpdated ==
    [type : {"PolicyUpdated"}, policy_id : PolicyIds, version : Versions,
     updated_by : Users, updated_at : AuditTimes]
EvPolicyApproved == [type : {"PolicyApproved"}, policy_id : PolicyIds]
EvPolicyActivated ==
    [type : {"PolicyActivated"}, policy_id : PolicyIds,
     effective_from : Times, effective_until : Option(Times)]
EvPolicySuspended == [type : {"PolicySuspended"}, policy_id : PolicyIds]
EvPolicyRevoked == [type : {"PolicyRevoked"}, policy_id : PolicyIds]
EvPolicyArchived == [type : {"PolicyArchived"}, policy_id : PolicyIds]
EvPolicyEvaluated == [type : {"PolicyEvaluated"}, policy_id : PolicyIds]
EvPolicyViolationDetected == [type : {"PolicyViolationDetected"}, policy_id : PolicyIds]
EvPolicyCompliancePassed == [type : {"PolicyCompliancePassed"}, policy_id : PolicyIds]
EvPolicyExemptionGranted ==
    [type : {"PolicyExemptionGranted"}, exemption_id : ExemptionIds,
     policy_id : PolicyIds, granted_by : Users, granted_at : Times,
     reason : Names, valid_until : Times, risk_acceptance : Option({"accepted"})]
EvPolicyExemptionRevoked ==
    [type : {"PolicyExemptionRevoked"}, exemption_id : ExemptionIds,
     policy_id : PolicyIds, revoked_by : Users, revoked_at : Times, reason : Names]
EvPolicyExemptionExpired ==
    [type : {"PolicyExemptionExpired"}, exemption_id : ExemptionIds,
     policy_id : PolicyIds]
EvPolicySetCreated ==
    [type : {"PolicySetCreated"}, policy_set_id : PolicySetIds, name : Names,
     description : Names, created_by : Users, created_at : AuditTimes]
EvPolicyAddedToSet ==
    [type : {"PolicyAddedToSet"}, policy_set_id : PolicySetIds, policy_id : PolicyIds]
EvPolicyRemovedFromSet ==
    [type : {"PolicyRemovedFromSet"}, policy_set_id : PolicySetIds, policy_id : PolicyIds]
EvPolicyConflictDetected ==
    [type : {"PolicyConflictDetected"}, conflict_id : {"c1"}]

PolicyEvent ==
    EvPolicyCreated \cup EvPolicyUpdated \cup EvPolicyApproved \cup EvPolicyActivated
    \cup EvPolicySuspended \cup EvPolicyRevoked \cup EvPolicyArchived
    \cup EvPolicyEvaluated \cup EvPolicyViolationDetected \cup EvPolicyCompliancePassed
    \cup EvPolicyExemptionGranted \cup EvPolicyExemptionRevoked
    \cup EvPolicyExemptionExpired
    \cup EvPolicySetCreated \cup EvPolicyAddedToSet \cup EvPolicyRemovedFromSet
    \cup EvPolicyConflictDetected

(* Result<T, E> *)
Ok(v) == [ok |-> TRUE, value |-> v]
Err(e) == [ok |-> FALSE, error |-> e]

---------------------------------------------------------------------------
(* value_objects.rs: PolicyTarget; the single-valued targets carry their   *)
(* organization, unit, role, resource type or operation type in v          *)
PolicyTarget_Global == [tag |-> "Global"]
PolicyTarget_Organization(v) == [tag |-> "Organization", v |-> v]
PolicyTarget_Role(v) == [tag |-> "Role", v |-> v]
PolicyTarget_Composite(targets) == [tag |-> "Composite", targets |-> targets]

(* value_objects.rs: PolicyMetadata::default, created at time t *)
PolicyMetadata_default(t) ==
    [created_by |-> "", created_at |-> t,
     last_modified_by |-> None, last_modified_at |-> None]

(* aggregate.rs: Policy::new; id is the fresh PolicyId, t the clock *)
Policy_new(id, name, description, t) ==
    [id |-> id, name |-> name, description |-> description, version |-> 1,
     status |-> "Draft", rules |-> <<>>, target |-> PolicyTarget_Global,
     enforcement_level |-> "Advisory", effective_date |-> None,
     expiry_date |-> None, parent_policy_id |-> None,
     metadata |-> PolicyMetadata_default(t)]


(* A variant of the policy reducer that validates each lifecycle event      *)
(* against the status it replaces and skips the event when it is not legal *)
Policy_apply_event_pure_Validating(p, e) ==
    LET legal(to) ==
            <<p.status, to>> \in
              {<<"Draft", "UnderReview">>, <<"UnderReview", "Approved">>,
               <<"UnderReview", "Draft">>, <<"Approved", "Active">>,
               <<"Active", "Suspended">>, <<"Suspended", "Active">>,
               <<"Active", "Revoked">>, <<"Suspended", "Revoked">>,
               <<"Revoked", "Archived">>}
    IN
    CASE e.type = "PolicyCreated" ->
            Ok([p EXCEPT !.id = e.policy_id,
                         !.name = e.name,
                         !.description = e.description,
                         !.version = 1,
                         !.status = "Draft",
                         !.rules = <<>>,
                         !.target = PolicyTarget_Global,
                         !.enforcement_level = "Advisory",
                         !.effective_date = None,
                         !.expiry_date = None,
                         !.parent_policy_id = None,
                         !.metadata.created_at = e.created_at,
                         !.metadata.created_by = e.created_by])
      [] e.type = "PolicyUpdated" ->
            Ok([p EXCEPT !.version = e.version,
                         !.metadata.last_modified_at = Some(e.updated_at),
                         !.metadata.last_modified_by = Some(e.updated_by)])
      [] e.type = "PolicyApproved" ->
            Ok(IF legal("Approved") THEN [p EXCEPT !.status = "Approved"] ELSE p)
      [] e.type = "PolicyActivated" ->
            Ok(IF legal("Active")
               THEN [p EXCEPT !.status = "Active",
                              !.effective_date = Some(e.effective_from),
                              !.expiry_date = e.effective_until]
               ELSE p)
      [] e.type = "PolicySuspended" ->
            Ok(IF legal("Suspended") THEN [p EXCEPT !.status = "Suspended"] ELSE p)
      [] e.type = "PolicyRevoked" ->
            Ok(IF legal("Revoked") THEN [p EXCEPT !.status = "Revoked"] ELSE p)
      [] e.type = "PolicyArchived" ->
            Ok(IF legal("Archived") THEN [p EXCEPT !.status = "Archived"] ELSE p)
      [] OTHER -> Ok(p)

(* aggregate.rs: Policy::apply_event_pure *)
Policy_apply_event_pure(p, e) ==
    CASE e.type = "PolicyCreated" ->
            Ok([p EXCEPT !.id = e.policy_id,
                         !.name = e.name,
                         !.description = e.description,
                         !.version = 1,
                         !.status = "Draft",
                         !.rules = <<>>,
                         !.target = PolicyTarget_Global,
                         !.enforcement_level = "Advisory",
                         !.effective_date = None,
                         !.expiry_date = None,
                         !.parent_policy_id = None,
                         !.metadata.created_at = e.created_at,
                         !.metadata.created_by = e.created_by])
      [] e.type = "PolicyUpdated" ->
            Ok([p EXCEPT !.version = e.version,
                         !.metadata.last_modified_at = Some(e.updated_at),
                         !.metadata.last_modified_by = Some(e.updated_by)])
      [] e.type = "PolicyApproved" -> Ok([p EXCEPT !.status = "Approved"])
      [] e.type = "PolicyActivated" ->
            Ok([p EXCEPT !.status = "Active",
                         !.effective_date = Some(e.effective_from),
                         !.expiry_date = e.effective_until])
      [] e.type = "PolicySuspended" -> Ok([p EXCEPT !.status = "Suspended"])
      [] e.type = "PolicyRevoked" -> Ok([p EXCEPT !.status = "Revoked"])
      [] e.type = "PolicyArchived" -> Ok([p EXCEPT !.status = "Archived"])
      [] e.type \in {"PolicyEvaluated", "PolicyViolationDetected",
                     "PolicyCompliancePassed"} -> Ok(p)
      [] e.type \in {"PolicyExemptionGranted", "PolicyExemptionRevoked",
                     "PolicyExemptionExpired"} -> Ok(p)
      [] e.type \in {"PolicySetCreated", "PolicyAddedToSet",
                     "PolicyRemovedFromSet", "PolicyConflictDetected"} -> Ok(p)

(* A variant of update_status that also lets a draft be approved directly *)
Policy_update_status_DraftToApproved(p, status) ==
    IF <<p.status, status>> \in
         {<<"Draft", "UnderReview">>, <<"UnderReview", "Approved">>,
          <<"UnderReview", "Draft">>, <<"Approved", "Active">>,
          <<"Active", "Suspended">>, <<"Suspended", "Active">>,
          <<"Active", "Revoked">>, <<"Suspended", "Revoked">>,
          <<"Revoked", "Archived">>, <<"Draft", "Approved">>}
    THEN [ok |-> TRUE, policy |-> [p EXCEPT !.status = status]]
    ELSE [ok |-> FALSE, policy |-> p]

(* aggregate.rs: Policy::update_status; the policy comes back with the result, *)
(* as the method mutates self *)
Policy_update_status(p, status) ==
    CASE p.status = "Draft" /\ status = "UnderReview" ->
            [ok |-> TRUE, policy |-> [p EXCEPT !.status = status]]
      [] p.status = "UnderReview" /\ status = "Approved" ->
            [ok |-> TRUE, policy |-> [p EXCEPT !.status = status]]
      [] p.status = "UnderReview" /\ status = "Draft" ->
            [ok |-> TRUE, policy |-> [p EXCEPT !.status = status]]
      [] p.status = "Approved" /\ status = "Active" ->
            [ok |-> TRUE, policy |-> [p EXCEPT !.status = status]]
      [] p.status = "Active" /\ status = "Suspended" ->
            [ok |-> TRUE, policy |-> [p EXCEPT !.status = status]]
      [] p.status = "Suspended" /\ status = "Active" ->
            [ok |-> TRUE, policy |-> [p EXCEPT !.status = status]]
      [] p.status = "Active" /\ status = "Revoked" ->
            [ok |-> TRUE, policy |-> [p EXCEPT !.status = status]]
      [] p.status = "Suspended" /\ status = "Revoked" ->
            [ok |-> TRUE, policy |-> [p EXCEPT !.status = status]]
      [] p.status = "Revoked" /\ status = "Archived" ->
            [ok |-> TRUE, policy |-> [p EXCEPT !.status = status]]
      [] OTHER ->
            [ok |-> FALSE, policy |-> p]

(* A variant of is_effective that does not look at the expiry date *)
Policy_is_effective_NoExpiry(p, t) ==
    IF p.status # "Active" THEN FALSE
    ELSE IF p.effective_date # None /\ t < p.effective_date[1] THEN FALSE
    ELSE TRUE

(* aggregate.rs: Policy::is_effective, t is the value of Utc::now() *)
Policy_is_effective(p, t) ==
    IF p.status # "Active" THEN FALSE
    ELSE IF p.effective_date # None /\ t < p.effective_date[1] THEN FALSE
    ELSE IF p.expiry_date # None /\ t > p.expiry_date[1] THEN FALSE
    ELSE TRUE

---------------------------------------------------------------------------
(* aggregate.rs: PolicySet::new *)
PolicySet_new(id, name, description, t) ==
    [id |-> id, name |-> name, description |-> description, policies |-> <<>>,
     composition_rule |-> "All", conflict_resolution |-> "MostRestrictive",
     status |-> "Draft", metadata |-> PolicyMetadata_default(t)]

(* Vec::contains *)
Contains(seq, x) == \E i \in 1..Len(seq) : seq[i] = x

(* Vec::retain(|id| id != x) *)
RECURSIVE Retain(_, _)
Retain(seq, x) ==
    IF seq = <<>> THEN <<>>
    ELSE IF Head(seq) # x THEN <<Head(seq)>> \o Retain(Tail(seq), x)
    ELSE Retain(Tail(seq), x)

(* A variant of add_policy without the contains check *)
PolicySet_add_policy_NoCheck(s, policy_id) ==
    [s EXCEPT !.policies = Append(s.policies, policy_id)]

(* aggregate.rs: PolicySet::add_policy *)
PolicySet_add_policy(s, policy_id) ==
    IF ~Contains(s.policies, policy_id)
    THEN [s EXCEPT !.policies = Append(s.policies, policy_id)]
    ELSE s

(* aggregate.rs: PolicySet::remove_policy *)
PolicySet_remove_policy(s, policy_id) ==
    [s EXCEPT !.policies = Retain(s.policies, policy_id)]

(* aggregate.rs: PolicySet::apply_event_pure *)
PolicySet_apply_event_pure(s, e) ==
    CASE e.type = "PolicySetCreated" ->
            Ok([s EXCEPT !.id = e.policy_set_id,
                         !.name = e.name,
                         !.description = e.description,
                         !.policies = <<>>,
                         !.composition_rule = "All",
                         !.conflict_resolution = "MostRestrictive",
                         !.status = "Draft",
                         !.metadata.created_at = e.created_at,
                         !.metadata.created_by = e.created_by])
      [] e.type = "PolicyAddedToSet" ->
            Ok(IF ~Contains(s.policies, e.policy_id)
               THEN [s EXCEPT !.policies = Append(s.policies, e.policy_id)]
               ELSE s)
      [] e.type = "PolicyRemovedFromSet" ->
            Ok([s EXCEPT !.policies = Retain(s.policies, e.policy_id)])
      [] e.type \in {"PolicyCreated", "PolicyUpdated", "PolicyApproved",
                     "PolicyActivated", "PolicySuspended", "PolicyRevoked",
                     "PolicyArchived", "PolicyEvaluated", "PolicyViolationDetected",
                     "PolicyCompliancePassed", "PolicyExemptionGranted",
                     "PolicyExemptionRevoked", "PolicyExemptionExpired",
                     "PolicyConflictDetected"} -> Ok(s)

---------------------------------------------------------------------------
(* aggregate.rs: ExemptionStatus *)
ExemptionActive == [tag |-> "Active"]
ExemptionExpired == [tag |-> "Expired"]
ExemptionRevoked(by, at, reason) ==
    [tag |-> "Revoked", revoked_by |-> by, revoked_at |-> at, reason |-> reason]

(* aggregate.rs: PolicyExemption::new, t is the value of Utc::now() *)
PolicyExemption_new(id, policy_id, reason, justification, approved_by, valid_until, t) ==
    [id |-> id, policy_id |-> policy_id, reason |-> reason,
     justification |-> justification, risk_acceptance |-> None,
     approved_by |-> approved_by, approved_at |-> t, valid_from |-> t,
     valid_until |-> valid_until, scope |-> [tag |-> "Global"],
     conditions |-> <<>>, status |-> ExemptionActive]

(* A variant of the exemption reducer that takes the policy's PolicyRevoked *)
(* for a revocation of the exemption *)
PolicyExemption_apply_event_pure_PolicyRevoked(x, e) ==
    CASE e.type = "PolicyExemptionGranted" ->
            Ok([x EXCEPT !.id = e.exemption_id,
                         !.policy_id = e.policy_id,
                         !.reason = e.reason,
                         !.justification = "",
                         !.risk_acceptance = e.risk_acceptance,
                         !.approved_by = e.granted_by,
                         !.approved_at = e.granted_at,
                         !.valid_from = e.granted_at,
                         !.valid_until = e.valid_until,
                         !.scope = [tag |-> "Global"],
                         !.conditions = <<>>,
                         !.status = ExemptionActive])
      [] e.type = "PolicyExemptionRevoked" ->
            Ok([x EXCEPT !.status =
                    ExemptionRevoked(e.revoked_by, e.revoked_at, e.reason)])
      [] e.type = "PolicyRevoked" ->
            Ok([x EXCEPT !.status = ExemptionRevoked("", 0, "")])
      [] e.type = "PolicyExemptionExpired" ->
            Ok([x EXCEPT !.status = ExemptionExpired])
      [] OTHER -> Ok(x)

(* aggregate.rs: PolicyExemption::apply_event_pure *)
PolicyExemption_apply_event_pure(x, e) ==
    CASE e.type = "PolicyExemptionGranted" ->
            Ok([x EXCEPT !.id = e.exemption_id,
                         !.policy_id = e.policy_id,
                         !.reason = e.reason,
                         !.justification = "",
                         !.risk_acceptance = e.risk_acceptance,
                         !.approved_by = e.granted_by,
                         !.approved_at = e.granted_at,
                         !.valid_from = e.granted_at,
                         !.valid_until = e.valid_until,
                         !.scope = [tag |-> "Global"],
                         !.conditions = <<>>,
                         !.status = ExemptionActive])
      [] e.type = "PolicyExemptionRevoked" ->
            Ok([x EXCEPT !.status =
                    ExemptionRevoked(e.revoked_by, e.revoked_at, e.reason)])
      [] e.type = "PolicyExemptionExpired" ->
            Ok([x EXCEPT !.status = ExemptionExpired])
      [] e.type \in {"PolicyCreated", "PolicyUpdated", "PolicyApproved",
                     "PolicyActivated", "PolicySuspended", "PolicyRevoked",
                     "PolicyArchived", "PolicyEvaluated", "PolicyViolationDetected",
                     "PolicyCompliancePassed", "PolicySetCreated", "PolicyAddedToSet",
                     "PolicyRemovedFromSet", "PolicyConflictDetected"} -> Ok(x)

(* aggregate.rs: PolicyExemption::is_valid, t is the value of Utc::now() *)
PolicyExemption_is_valid(x, t) ==
    IF x.status # ExemptionActive THEN FALSE
    ELSE t >= x.valid_from /\ t <= x.valid_until

(* aggregate.rs: PolicyExemption::revoke, t is the value of Utc::now() *)
PolicyExemption_revoke(x, revoked_by, reason, t) ==
    [x EXCEPT !.status = ExemptionRevoked(revoked_by, t, reason)]

---------------------------------------------------------------------------
(* The aggregates under replay and direct mutation.  One run works on one  *)
(* aggregate (focus); the other two stay as constructed.                   *)

AggregateTypes == {"Policy", "PolicySet", "PolicyExemption"}

(* No Repository::load has returned since the last other operation *)
NotLoaded == [repo |-> "none"]

(* No evaluate has returned since the last other operation *)
NotEvaluated == [called |-> FALSE]

(* The conflict resolver and the sagas are not part of the run *)
NotResolving == [called |-> FALSE]
NoSaga == [saga_type |-> "none"]

InitAggregates ==
    /\ focus \in AggregateTypes
    /\ policy = Policy_new("p1", "new", "new", 0)
    /\ policySet = PolicySet_new("s1", "new", "new", 0)
    /\ exemption = PolicyExemption_new("e1", "p1", "new", "new", "admin", MaxTime, 0)
    /\ ret = [op |-> "new", arg |-> "", ok |-> TRUE]
    /\ store = <<>>
    /\ loaded = NotLoaded
    /\ now = 0
    /\ resolving = NotResolving
    /\ saga = NoSaga
    /\ registered = [p \in PolicyIds |-> <<>>]
    /\ evaluated = NotEvaluated

(* policy = policy.apply_event_pure(&event)? *)
PolicyApplyEvent ==
    /\ focus = "Policy"
    /\ \E e \in PolicyEvent :
           LET r == Policy_apply_event_pure(policy, e) IN
           /\ policy' = IF r.ok THEN r.value ELSE policy
           /\ ret' = [op |-> "apply_event_pure", arg |-> e.type, ok |-> r.ok]
    /\ UNCHANGED <<focus, policySet, exemption,
                   repositoryVars, now, serviceVars, evaluatorVars>>

(* policy.update_status(status) *)
PolicyUpdateStatus ==
    /\ focus = "Policy"
    /\ \E status \in PolicyStatus :
           LET r == Policy_update_status(policy, status) IN
           /\ policy' = r.policy
           /\ ret' = [op |-> "update_status", arg |-> status, ok |-> r.ok]
    /\ UNCHANGED <<focus, policySet, exemption,
                   repositoryVars, now, serviceVars, evaluatorVars>>

(* set = set.apply_event_pure(&event)? *)
PolicySetApplyEvent ==
    /\ focus = "PolicySet"
    /\ \E e \in PolicyEvent :
           LET r == PolicySet_apply_event_pure(policySet, e) IN
           /\ policySet' = IF r.ok THEN r.value ELSE policySet
           /\ ret' = [op |-> "apply_event_pure", arg |-> e.type, ok |-> r.ok]
    /\ UNCHANGED <<focus, policy, exemption,
                   repositoryVars, now, serviceVars, evaluatorVars>>

(* set.add_policy(policy_id) *)
PolicySetAddPolicy ==
    /\ focus = "PolicySet"
    /\ \E pid \in PolicyIds :
           /\ policySet' = PolicySet_add_policy(policySet, pid)
           /\ ret' = [op |-> "add_policy", arg |-> pid, ok |-> TRUE]
    /\ UNCHANGED <<focus, policy, exemption,
                   repositoryVars, now, serviceVars, evaluatorVars>>

(* set.remove_policy(&policy_id) *)
PolicySetRemovePolicy ==
    /\ focus = "PolicySet"
    /\ \E pid \in PolicyIds :
           /\ policySet' = PolicySet_remove_policy(policySet, pid)
           /\ ret' = [op |-> "remove_policy", arg |-> pid, ok |-> TRUE]
    /\ UNCHANGED <<focus, policy, exemption,
                   repositoryVars, now, serviceVars, evaluatorVars>>

(* exemption = exemption.apply_event_pure(&event)? *)
ExemptionApplyEvent ==
    /\ focus = "PolicyExemption"
    /\ \E e \in PolicyEvent :
           LET r == PolicyExemption_apply_event_pure(exemption, e) IN
           /\ exemption' = IF r.ok THEN r.value ELSE exemption
           /\ ret' = [op |-> "apply_event_pure", arg |-> e.type, ok |-> r.ok]
    /\ UNCHANGED <<focus, policy, policySet,
                   repositoryVars, now, serviceVars, evaluatorVars>>

(* exemption.revoke(revoked_by, reason) *)
ExemptionRevoke ==
    /\ focus = "PolicyExemption"
    /\ \E by \in Users, reason \in Names, t \in Times :
           /\ exemption' = PolicyExemption_revoke(exemption, by, reason, t)
           /\ ret' = [op |-> "revoke", arg |-> by, ok |-> TRUE]
    /\ UNCHANGED <<focus, policy, policySet,
                   repositoryVars, now, serviceVars, evaluatorVars>>

NextAggregates ==
    \/ PolicyApplyEvent
    \/ PolicyUpdateStatus
    \/ PolicySetApplyEvent
    \/ PolicySetAddPolicy
    \/ PolicySetRemovePolicy
    \/ ExemptionApplyEvent
    \/ ExemptionRevoke

SpecAggregates == InitAggregates /\ [][NextAggregates]_vars

---------------------------------------------------------------------------
(* Claims about the aggregates, checked under SpecAggregates *)

(* The status table as section 4.4 of the specification draws it *)
SpecStatusTable ==
    {<<"Draft", "UnderReview">>, <<"UnderReview", "Approved">>,
     <<"Approved", "Active">>, <<"Active", "Suspended">>,
     <<"Suspended", "Active">>, <<"Active", "Revoked">>,
     <<"Suspended", "Revoked">>, <<"Revoked", "Archived">>}

(* The same table with the transition that sends a policy under review     *)
(* back to draft                                                           *)
RevisionStatusTable == SpecStatusTable \cup {<<"UnderReview", "Draft">>}

(* C1 as stated: update_status succeeds only for the eight pairs of the    *)
(* specification's table; for every other pair it returns an error and     *)
(* leaves the policy unchanged.                                            *)
C1_UpdateStatusSpecTable ==
    [][ret'.op = "update_status" =>
         /\ ret'.ok => <<policy.status, ret'.arg>> \in SpecStatusTable
         /\ <<policy.status, ret'.arg>> \notin SpecStatusTable =>
                ~ret'.ok /\ policy' = policy]_vars

(* C1 amended: update_status succeeds exactly for the eight pairs of the   *)
(* table and for UnderReview -> Draft, and then sets the status; for every *)
(* other pair it returns an error and leaves the policy unchanged.         *)
C1_UpdateStatusRevisionTable ==
    [][ret'.op = "update_status" =>
         /\ ret'.ok <=> <<policy.status, ret'.arg>> \in RevisionStatusTable
         /\ ret'.ok => policy' = [policy EXCEPT !.status = ret'.arg]
         /\ ~ret'.ok => policy' = policy]_vars

(* C1 witness: update_status(Draft) has succeeded, which only a policy     *)
(* under review allows                                                     *)
C1_Witness ==
    ret.op = "update_status" /\ ret.ok /\ ret.arg = "Draft" /\ policy.status = "Draft"

(* C2: across any sequence of events applied to a Policy with              *)
(* apply_event_pure, the version never decreases from one state to the     *)
(* next.                                                                   *)
C2_VersionNeverDecreases ==
    [][(focus = "Policy" /\ ret'.op = "apply_event_pure") =>
         policy'.version >= policy.version]_vars

(* C3: once an exemption is Revoked or Expired, applying any further event *)
(* with apply_event_pure leaves the exemption unchanged.                   *)
C3_TerminalExemptionUnchanged ==
    [][(/\ focus = "PolicyExemption"
        /\ exemption.status.tag \in {"Revoked", "Expired"}
        /\ ret'.op = "apply_event_pure") =>
         exemption' = exemption]_vars

(* The event variants each aggregate type leaves to the other types *)
LifecycleEventTypes ==
    {"PolicyApproved", "PolicyActivated", "PolicySuspended", "PolicyRevoked",
     "PolicyArchived"}
EvaluationEventTypes ==
    {"PolicyEvaluated", "PolicyViolationDetected", "PolicyCompliancePassed"}
ExemptionEventTypes ==
    {"PolicyExemptionGranted", "PolicyExemptionRevoked", "PolicyExemptionExpired"}
SetEventTypes ==
    {"PolicySetCreated", "PolicyAddedToSet", "PolicyRemovedFromSet",
     "PolicyConflictDetected"}
PolicyEventTypes ==
    {"PolicyCreated", "PolicyUpdated"} \cup LifecycleEventTypes
ForeignEventTypes(aggregate) ==
    CASE aggregate = "Policy" -> ExemptionEventTypes \cup SetEventTypes
      [] aggregate = "PolicySet" ->
            PolicyEventTypes \cup EvaluationEventTypes \cup ExemptionEventTypes
      [] aggregate = "PolicyExemption" ->
            PolicyEventTypes \cup EvaluationEventTypes \cup SetEventTypes

(* C5: for each of Policy, PolicySet and PolicyExemption, apply_event_pure *)
(* returns Ok for every event variant, and for every variant of another    *)
(* aggregate type the returned state equals the prior state.               *)
C5_ForeignEventsIgnored ==
    [][ret'.op = "apply_event_pure" =>
         /\ ret'.ok
         /\ ret'.arg \in ForeignEventTypes(focus) =>
                /\ policy' = policy
                /\ policySet' = policySet
                /\ exemption' = exemption]_vars

(* C5 witness: an exemption that is no longer as constructed has been      *)
(* handed a policy lifecycle event                                         *)
C5_Witness ==
    /\ focus = "PolicyExemption"
    /\ ret.op = "apply_event_pure" /\ ret.ok /\ ret.arg = "PolicyRevoked"
    /\ exemption.id = "e2"

(* C6 as stated: every status change the fold makes for a lifecycle event  *)
(* is a transition update_status would accept from the status held before. *)
C6_FoldEnforcesStatusTable ==
    [][(/\ focus = "Policy"
        /\ ret'.op = "apply_event_pure"
        /\ ret'.arg \in LifecycleEventTypes
        /\ policy'.status # policy.status) =>
         Policy_update_status(policy, policy'.status).ok]_vars

(* The status a lifecycle event stands for *)
LifecycleTarget(type) ==
    CASE type = "PolicyApproved" -> "Approved"
      [] type = "PolicyActivated" -> "Active"
      [] type = "PolicySuspended" -> "Suspended"
      [] type = "PolicyRevoked" -> "Revoked"
      [] type = "PolicyArchived" -> "Archived"

(* C6 amended: the fold does not check the status table.  A lifecycle      *)
(* event sets the status to the status the event stands for, whatever the  *)
(* status held before; update_status would accept that change only when    *)
(* the pair is in its table.                                               *)
C6_FoldProjectsStatus ==
    [][(/\ focus = "Policy"
        /\ ret'.op = "apply_event_pure"
        /\ ret'.arg \in LifecycleEventTypes) =>
         /\ ret'.ok
         /\ policy'.status = LifecycleTarget(ret'.arg)
         /\ Policy_update_status(policy, policy'.status).ok
                <=> <<policy.status, policy'.status>> \in RevisionStatusTable]_vars

(* C6 witness: a policy that was never activated has been archived by the  *)
(* fold                                                                    *)
C6_Witness ==
    /\ ret.op = "apply_event_pure" /\ ret.arg = "PolicyArchived"
    /\ policy.status = "Archived"
    /\ policy.effective_date = None
    /\ policy.metadata.created_by = ""

(* C7: on a newly created Policy, update_status(Approved) followed by      *)
(* update_status(Active) both succeed, and is_effective() is then true.    *)
C7_NewPolicyApprovedThenActive ==
    [][(/\ focus = "Policy"
        /\ ret.op = "new"
        /\ ret'.op = "update_status"
        /\ ret'.arg = "Approved") =>
         /\ ret'.ok
         /\ LET r == Policy_update_status(policy', "Active") IN
            /\ r.ok
            /\ \A t \in Times : Policy_is_effective(r.policy, t)]_vars

(* C8: after any sequence of events applied to a PolicySet and any         *)
(* sequence of add_policy / remove_policy calls, no policy id occurs twice *)
(* in its policies list.                                                   *)
C8_NoDuplicatePolicies ==
    \A i, j \in 1..Len(policySet.policies) :
        policySet.policies[i] = policySet.policies[j] => i = j

(* C8 witness: add_policy has been called for an id the list already held, *)
(* next to another id                                                      *)
C8_Witness ==
    /\ ret.op = "add_policy"
    /\ Len(policySet.policies) = 2
    /\ policySet.policies[1] = ret.arg

---------------------------------------------------------------------------
(* The event store and the three repositories                              *)

(* events.rs: PolicyEvent::aggregate_id *)
PolicyEvent_aggregate_id(e) ==
    CASE e.type \in {"PolicyCreated", "PolicyUpdated", "PolicyApproved",
                     "PolicyActivated", "PolicySuspended", "PolicyRevoked",
                     "PolicyArchived", "PolicyEvaluated",
                     "PolicyViolationDetected", "PolicyCompliancePassed",
                     "PolicyExemptionGranted"} -> e.policy_id
      [] e.type \in {"PolicyExemptionRevoked", "PolicyExemptionExpired"} ->
            e.exemption_id
      [] e.type \in {"PolicySetCreated", "PolicyAddedToSet",
                     "PolicyRemovedFromSet"} -> e.policy_set_id
      [] e.type = "PolicyConflictDetected" -> e.conflict_id

(* str::to_lowercase on the names event_type returns *)
to_lowercase(type) ==
    CASE type = "PolicyCreated" -> "policycreated"
      [] type = "PolicyUpdated" -> "policyupdated"
      [] type = "PolicyApproved" -> "policyapproved"
      [] type = "PolicyActivated" -> "policyactivated"
      [] type = "PolicySuspended" -> "policysuspended"
      [] type = "PolicyRevoked" -> "policyrevoked"
      [] type = "PolicyArchived" -> "policyarchived"
      [] type = "PolicyEvaluated" -> "policyevaluated"
      [] type = "PolicyViolationDetected" -> "policyviolationdetected"
      [] type = "PolicyCompliancePassed" -> "policycompliancepassed"
      [] type = "PolicyExemptionGranted" -> "policyexemptiongranted"
      [] type = "PolicyExemptionRevoked" -> "policyexemptionrevoked"
      [] type = "PolicyExemptionExpired" -> "policyexemptionexpired"
      [] type = "PolicySetCreated" -> "policysetcreated"
      [] type = "PolicyAddedToSet" -> "policyaddedtoset"
      [] type = "PolicyRemovedFromSet" -> "policyremovedfromset"
      [] type = "PolicyConflictDetected" -> "policyconflictdetected"

(* nats_integration.rs: NatsEventStore::event_subject; the subject          *)
(* events.policy.{aggregate_id}.{event_type} as its four tokens            *)
NatsEventStore_event_subject(e) ==
    <<"events", "policy", PolicyEvent_aggregate_id(e), to_lowercase(e.type)>>

(* The message append_event publishes: subject, headers and the event as   *)
(* its payload                                                             *)
NatsEventStore_message(e) ==
    [subject |-> NatsEventStore_event_subject(e),
     event_type |-> e.type,
     aggregate_id |-> PolicyEvent_aggregate_id(e),
     payload |-> e]

(* The consumer filter events.policy.{aggregate_id}.* : four tokens, the    *)
(* last one free                                                           *)
SubjectMatches(subject, aggregate_id) ==
    /\ Len(subject) = 4
    /\ subject[1] = "events" /\ subject[2] = "policy"
    /\ subject[3] = aggregate_id

(* nats_integration.rs: NatsEventStore::load_events when every message is  *)
(* read: the payloads of the messages the filter selects, in stream order  *)
RECURSIVE NatsEventStore_load_events(_, _)
NatsEventStore_load_events(stream, aggregate_id) ==
    IF stream = <<>> THEN <<>>
    ELSE IF SubjectMatches(Head(stream).subject, aggregate_id)
         THEN <<Head(stream).payload>>
                  \o NatsEventStore_load_events(Tail(stream), aggregate_id)
         ELSE NatsEventStore_load_events(Tail(stream), aggregate_id)

(* policy_repository.rs: PolicyRepository::create_from_created_event;      *)
(* fresh and t are the PolicyId::new() and Utc::now() of Policy::new       *)
PolicyRepository_create_from_created_event(e, fresh, t) ==
    Policy_apply_event_pure(Policy_new(fresh, e.name, e.description, t), e)

(* policy_set_repository.rs: PolicySetRepository::create_from_created_event *)
PolicySetRepository_create_from_created_event(e, fresh, t) ==
    PolicySet_apply_event_pure(PolicySet_new(fresh, e.name, e.description, t), e)

(* exemption_repository.rs: ExemptionRepository::create_from_granted_event *)
ExemptionRepository_create_from_granted_event(e, fresh, t) ==
    PolicyExemption_apply_event_pure(
        PolicyExemption_new(fresh, e.policy_id, e.reason, e.reason,
                            e.granted_by, e.valid_until, t), e)

(* The ? on a reducer's result inside load: PolicyError -> RepositoryError *)
FromPolicyError(r) == IF r.ok THEN r ELSE Err("Policy")

(* The Some(pol) arm of the loop in PolicyRepository::load *)
RECURSIVE PolicyRepository_replay(_, _)
PolicyRepository_replay(pol, events) ==
    IF events = <<>> THEN Ok(Some(pol))
    ELSE LET r == Policy_apply_event_pure(pol, Head(events)) IN
         IF r.ok THEN PolicyRepository_replay(r.value, Tail(events))
         ELSE FromPolicyError(r)

(* The Some(set) arm of the loop in PolicySetRepository::load *)
RECURSIVE PolicySetRepository_replay(_, _)
PolicySetRepository_replay(set, events) ==
    IF events = <<>> THEN Ok(Some(set))
    ELSE LET r == PolicySet_apply_event_pure(set, Head(events)) IN
         IF r.ok THEN PolicySetRepository_replay(r.value, Tail(events))
         ELSE FromPolicyError(r)

(* The Some(ex) arm of the loop in ExemptionRepository::load *)
RECURSIVE ExemptionRepository_replay(_, _)
ExemptionRepository_replay(ex, events) ==
    IF events = <<>> THEN Ok(Some(ex))
    ELSE LET r == PolicyExemption_apply_event_pure(ex, Head(events)) IN
         IF r.ok THEN ExemptionRepository_replay(r.value, Tail(events))
         ELSE FromPolicyError(r)

(* A variant of PolicyRepository::load that starts from an empty policy    *)
(* and folds every event, without looking at the first one                 *)
PolicyRepository_load_FoldAll(events, fresh, t) ==
    IF events = <<>> THEN Ok(None)
    ELSE PolicyRepository_replay(Policy_new(fresh, "", "", t), events)

(* policy_repository.rs: PolicyRepository::load, on the events load_events *)
(* returned                                                                *)
PolicyRepository_load(events, fresh, t) ==
    IF events = <<>> THEN Ok(None)
    ELSE IF Head(events).type = "PolicyCreated"
         THEN LET r == PolicyRepository_create_from_created_event(
                           Head(events), fresh, t) IN
              IF r.ok THEN PolicyRepository_replay(r.value, Tail(events))
              ELSE FromPolicyError(r)
         ELSE Err("InvalidSequence")

(* policy_set_repository.rs: PolicySetRepository::load *)
PolicySetRepository_load(events, fresh, t) ==
    IF events = <<>> THEN Ok(None)
    ELSE IF Head(events).type = "PolicySetCreated"
         THEN LET r == PolicySetRepository_create_from_created_event(
                           Head(events), fresh, t) IN
              IF r.ok THEN PolicySetRepository_replay(r.value, Tail(events))
              ELSE FromPolicyError(r)
         ELSE Err("InvalidSequence")

(* exemption_repository.rs: ExemptionRepository::load *)
ExemptionRepository_load(events, fresh, t) ==
    IF events = <<>> THEN Ok(None)
    ELSE IF Head(events).type = "PolicyExemptionGranted"
         THEN LET r == ExemptionRepository_create_from_granted_event(
                           Head(events), fresh, t) IN
              IF r.ok THEN ExemptionRepository_replay(r.value, Tail(events))
              ELSE FromPolicyError(r)
         ELSE Err("InvalidSequence")

(* The Uuids load is called with, whatever the id type they are wrapped   *)
(* in: the ids the events carry and one no event carries                   *)
LoadIds == {"p1", "s1", "e1", "p2"}

(* PolicyId::new(), PolicySetId::new(), ExemptionId::new(): an id no event *)
(* carries                                                                 *)
FreshPolicyIds == {"p2"}
FreshPolicySetIds == {"s2"}
FreshExemptionIds == {"e2"}

(* The events the repositories are handed to save: one policy, one         *)
(* exemption of that policy and one policy set holding it                  *)
RepositoryEvents ==
    {[type |-> "PolicyCreated", policy_id |-> "p1", name |-> "created",
      description |-> "created", created_by |-> "admin", created_at |-> MaxTime],
     [type |-> "PolicyApproved", policy_id |-> "p1"],
     [type |-> "PolicyExemptionGranted", exemption_id |-> "e1",
      policy_id |-> "p1", granted_by |-> "admin", granted_at |-> 0,
      reason |-> "created", valid_until |-> MaxTime, risk_acceptance |-> None],
     [type |-> "PolicyExemptionRevoked", exemption_id |-> "e1",
      policy_id |-> "p1", revoked_by |-> "admin", revoked_at |-> MaxTime,
      reason |-> "created"],
     [type |-> "PolicySetCreated", policy_set_id |-> "s1", name |-> "created",
      description |-> "created", created_by |-> "admin", created_at |-> MaxTime],
     [type |-> "PolicyAddedToSet", policy_set_id |-> "s1", policy_id |-> "p1"]}

(* Vec<PolicyEvent> of at most n events *)
Batches(n) == UNION {[1..m -> RepositoryEvents] : m \in 0..n}

InitRepository ==
    /\ focus = "Policy"
    /\ policy = Policy_new("p1", "new", "new", 0)
    /\ policySet = PolicySet_new("s1", "new", "new", 0)
    /\ exemption = PolicyExemption_new("e1", "p1", "new", "new", "admin", MaxTime, 0)
    /\ ret = [op |-> "new", arg |-> "", ok |-> TRUE]
    /\ store = <<>>
    /\ loaded = NotLoaded
    /\ now = 0
    /\ resolving = NotResolving
    /\ saga = NoSaga
    /\ registered = [p \in PolicyIds |-> <<>>]
    /\ evaluated = NotEvaluated

(* Repository::save, the same loop in the three repositories: append_event *)
(* publishes one message per event, in order; the first publish that fails *)
(* (after k events) ends the loop with the NATS error                      *)
Save(repo) ==
    /\ \E events \in Batches(MaxLog - Len(store)) :
       \E k \in 0..Len(events) :
           /\ store' = store \o [i \in 1..k |-> NatsEventStore_message(events[i])]
           /\ ret' = [op |-> "save", arg |-> repo, ok |-> (k = Len(events))]
    /\ loaded' = NotLoaded
    /\ UNCHANGED <<aggregateVars, now, serviceVars, evaluatorVars>>

(* policy_repository.rs: PolicyRepository::save *)
SavePolicy == Save("Policy")
(* policy_set_repository.rs: PolicySetRepository::save *)
SavePolicySet == Save("PolicySet")
(* exemption_repository.rs: ExemptionRepository::save *)
SaveExemption == Save("PolicyExemption")

(* The call of load_events has failed (the consumer could not be created   *)
(* or its messages not fetched): load returns the NATS error               *)
LoadFailed(repo) ==
    /\ \E id \in LoadIds :
           /\ loaded' = [repo |-> repo, id |-> id, read |-> FALSE,
                         history |-> <<>>, complete |-> FALSE,
                         result |-> Err("Nats")]
           /\ ret' = [op |-> "load", arg |-> repo, ok |-> FALSE]
    /\ UNCHANGED <<aggregateVars, store, now, serviceVars, evaluatorVars>>

(* load_events has returned the first k events of the aggregate (all of    *)
(* them unless reading a message failed, which ends the reading) and load  *)
(* has replayed them                                                       *)
Loaded(repo, id, k, result) ==
    LET all == NatsEventStore_load_events(store, id) IN
    /\ loaded' = [repo |-> repo, id |-> id, read |-> TRUE,
                  history |-> SubSeq(all, 1, k), complete |-> (k = Len(all)),
                  result |-> result]
    /\ ret' = [op |-> "load", arg |-> repo, ok |-> result.ok]
    /\ UNCHANGED <<aggregateVars, store, now, serviceVars, evaluatorVars>>

(* policy_repository.rs: PolicyRepository::load *)
LoadPolicy ==
    \/ LoadFailed("Policy")
    \/ \E id \in LoadIds, fresh \in FreshPolicyIds :
       \E k \in 0..Len(NatsEventStore_load_events(store, id)) :
           Loaded("Policy", id, k,
                  PolicyRepository_load(
                      SubSeq(NatsEventStore_load_events(store, id), 1, k),
                      fresh, now))

(* policy_set_repository.rs: PolicySetRepository::load *)
LoadPolicySet ==
    \/ LoadFailed("PolicySet")
    \/ \E id \in LoadIds, fresh \in FreshPolicySetIds :
       \E k \in 0..Len(NatsEventStore_load_events(store, id)) :
           Loaded("PolicySet", id, k,
                  PolicySetRepository_load(
                      SubSeq(NatsEventStore_load_events(store, id), 1, k),
                      fresh, now))

(* exemption_repository.rs: ExemptionRepository::load *)
LoadExemption ==
    \/ LoadFailed("PolicyExemption")
    \/ \E id \in LoadIds, fresh \in FreshExemptionIds :
       \E k \in 0..Len(NatsEventStore_load_events(store, id)) :
           Loaded("PolicyExemption", id, k,
                  ExemptionRepository_load(
                      SubSeq(NatsEventStore_load_events(store, id), 1, k),
                      fresh, now))

NextRepository ==
    \/ SavePolicy
    \/ SavePolicySet
    \/ SaveExemption
    \/ LoadPolicy
    \/ LoadPolicySet
    \/ LoadExemption

SpecRepository == InitRepository /\ [][NextRepository]_vars

---------------------------------------------------------------------------
(* Claims about the repositories, checked under SpecRepository *)

(* The event that creates an aggregate of each repository *)
CreationEventType(repo) ==
    CASE repo = "Policy" -> "PolicyCreated"
      [] repo = "PolicySet" -> "PolicySetCreated"
      [] repo = "PolicyExemption" -> "PolicyExemptionGranted"

(* C4: for each of the Policy, PolicySet and PolicyExemption repositories, *)
(* load on a non-empty history whose first event is not that aggregate's   *)
(* creation event returns InvalidSequence and never an aggregate.          *)
C4_InvalidFirstEvent ==
    (/\ loaded.repo \in AggregateTypes
     /\ loaded.read
     /\ loaded.history # <<>>
     /\ Head(loaded.history).type # CreationEventType(loaded.repo)) =>
        loaded.result = Err("InvalidSequence")

(* C4 witness: the policy repository has read a history in which the       *)
(* creation event comes second, and has returned InvalidSequence           *)
C4_Witness ==
    /\ loaded.repo = "Policy"
    /\ loaded.read
    /\ Len(loaded.history) = 2
    /\ loaded.history[1].type = "PolicyApproved"
    /\ loaded.history[2].type = "PolicyCreated"
    /\ loaded.result = Err("InvalidSequence")

---------------------------------------------------------------------------
(* value_objects.rs: Value.  A String is the sequence of its bytes, a Float *)
(* is an integral number or NaN; DateTime and Map values are not drawn.    *)
VNull == [kind |-> "Null"]
VBool(b) == [kind |-> "Bool", v |-> b]
VInteger(n) == [kind |-> "Integer", v |-> n]
VFloat(x) == [kind |-> "Float", nan |-> FALSE, v |-> x]
VNaN == [kind |-> "Float", nan |-> TRUE, v |-> 0]
VString(s) == [kind |-> "String", v |-> s]
VList(items) == [kind |-> "List", v |-> items]

(* The derived PartialEq of Value: NaN equals nothing *)
RECURSIVE Value_eq(_, _)
Value_eq(a, b) ==
    IF a.kind # b.kind THEN FALSE
    ELSE CASE a.kind = "Null" -> TRUE
           [] a.kind = "Float" -> ~a.nan /\ ~b.nan /\ a.v = b.v
           [] a.kind = "List" ->
                 /\ Len(a.v) = Len(b.v)
                 /\ \A i \in 1..Len(a.v) : Value_eq(a.v[i], b.v[i])
           [] OTHER -> a.v = b.v

(* Vec<Value>::contains *)
Values_contains(values, x) == \E i \in 1..Len(values) : Value_eq(values[i], x)

(* Ord::cmp on i64 *)
Integer_cmp(x, y) == IF x < y THEN "Less" ELSE IF x = y THEN "Equal" ELSE "Greater"

(* Ord::cmp on String: byte by byte, a proper prefix is less *)
RECURSIVE String_cmp(_, _)
String_cmp(x, y) ==
    IF x = <<>> /\ y = <<>> THEN "Equal"
    ELSE IF x = <<>> THEN "Less"
    ELSE IF y = <<>> THEN "Greater"
    ELSE IF Head(x) < Head(y) THEN "Less"
    ELSE IF Head(x) > Head(y) THEN "Greater"
    ELSE String_cmp(Tail(x), Tail(y))

(* str::contains, str::starts_with, str::ends_with *)
str_contains(s, needle) ==
    \E i \in 0..(Len(s) - Len(needle)) : SubSeq(s, i + 1, i + Len(needle)) = needle
str_starts_with(s, prefix) ==
    Len(prefix) <= Len(s) /\ SubSeq(s, 1, Len(prefix)) = prefix
str_ends_with(s, suffix) ==
    Len(suffix) <= Len(s) /\ SubSeq(s, Len(s) - Len(suffix) + 1, Len(s)) = suffix

(* value_objects.rs: EvaluationContext::get_field *)
EvaluationContext_get_field(context, key) ==
    IF key \in DOMAIN context.fields THEN Some(context.fields[key]) ELSE None

(* policy_evaluator.rs: PolicyEvaluator::compare_values, an Option<Ordering> *)
PolicyEvaluator_compare_values(a, b) ==
    CASE a.kind = "Integer" /\ b.kind = "Integer" -> Some(Integer_cmp(a.v, b.v))
      [] a.kind = "Float" /\ b.kind = "Float" ->
            IF a.nan \/ b.nan THEN None ELSE Some(Integer_cmp(a.v, b.v))
      [] a.kind = "String" /\ b.kind = "String" -> Some(String_cmp(a.v, b.v))
      [] OTHER -> None

(* policy_evaluator.rs: EvaluationError *)
PolicyNotActive(policy_id) == [kind |-> "PolicyNotActive", policy_id |-> policy_id]
MissingContextField(field) == [kind |-> "MissingContextField", field |-> field]
RuleEvaluationFailed(predicate) ==
    [kind |-> "RuleEvaluationFailed", predicate |-> predicate]

(* The match of Contains on (field_value, value), in rules and conditions *)
ContainsMatch(field_value, value) ==
    CASE field_value.kind = "String" /\ value.kind = "String" ->
            str_contains(field_value.v, value.v)
      [] field_value.kind = "List" -> Values_contains(field_value.v, value)
      [] OTHER -> FALSE

(* policy_evaluator.rs: PolicyEvaluator::evaluate_expression, a             *)
(* Result<bool, EvaluationError>                                           *)
RECURSIVE PolicyEvaluator_evaluate_expression(_, _)
RECURSIVE EvaluateAnd(_, _)
RECURSIVE EvaluateOr(_, _)

(* A variant of the And arm that evaluates every child: the first error    *)
(* of any child, else the conjunction                                      *)
EvaluateAnd_NoShortCircuit(exprs, context) ==
    LET results == [i \in 1..Len(exprs) |->
                       PolicyEvaluator_evaluate_expression(exprs[i], context)]
        errors == {i \in 1..Len(exprs) : ~results[i].ok}
    IN
    IF errors # {}
    THEN results[CHOOSE i \in errors : \A j \in errors : i <= j]
    ELSE Ok(\A i \in 1..Len(exprs) : results[i].value)

(* The loop of the And arm: the first false child or error ends it *)
EvaluateAnd(exprs, context) ==
    IF exprs = <<>> THEN Ok(TRUE)
    ELSE LET r == PolicyEvaluator_evaluate_expression(Head(exprs), context) IN
         IF ~r.ok THEN r
         ELSE IF ~r.value THEN Ok(FALSE)
         ELSE EvaluateAnd(Tail(exprs), context)

(* The loop of the Or arm: the first true child or error ends it *)
EvaluateOr(exprs, context) ==
    IF exprs = <<>> THEN Ok(FALSE)
    ELSE LET r == PolicyEvaluator_evaluate_expression(Head(exprs), context) IN
         IF ~r.ok THEN r
         ELSE IF r.value THEN Ok(TRUE)
         ELSE EvaluateOr(Tail(exprs), context)

PolicyEvaluator_evaluate_expression(expr, context) ==
    LET field_value == EvaluationContext_get_field(context, expr.field)
        missing == Err(MissingContextField(expr.field))
        ordering == PolicyEvaluator_compare_values(field_value[1], expr.value)
    IN
    CASE expr.tag = "Equal" ->
            IF field_value = None THEN missing
            ELSE Ok(Value_eq(field_value[1], expr.value))
      [] expr.tag = "NotEqual" ->
            IF field_value = None THEN missing
            ELSE Ok(~Value_eq(field_value[1], expr.value))
      [] expr.tag = "GreaterThan" ->
            IF field_value = None THEN missing
            ELSE Ok(ordering = Some("Greater"))
      [] expr.tag = "GreaterThanOrEqual" ->
            IF field_value = None THEN missing
            ELSE Ok(ordering = Some("Greater") \/ ordering = Some("Equal"))
      [] expr.tag = "LessThan" ->
            IF field_value = None THEN missing
            ELSE Ok(ordering = Some("Less"))
      [] expr.tag = "LessThanOrEqual" ->
            IF field_value = None THEN missing
            ELSE Ok(ordering = Some("Less") \/ ordering = Some("Equal"))
      [] expr.tag = "And" -> EvaluateAnd(expr.exprs, context)
      [] expr.tag = "Or" -> EvaluateOr(expr.exprs, context)
      [] expr.tag = "Not" ->
            LET r == PolicyEvaluator_evaluate_expression(expr.expr, context) IN
            IF r.ok THEN Ok(~r.value) ELSE r
      [] expr.tag = "In" ->
            IF field_value = None THEN missing
            ELSE Ok(Values_contains(expr.values, field_value[1]))
      [] expr.tag = "NotIn" ->
            IF field_value = None THEN missing
            ELSE Ok(~Values_contains(expr.values, field_value[1]))
      [] expr.tag = "Contains" ->
            IF field_value = None THEN missing
            ELSE Ok(ContainsMatch(field_value[1], expr.value))
      [] expr.tag = "Matches" ->
            IF field_value = None THEN missing
            ELSE Ok(field_value[1].kind = "String"
                    /\ str_contains(field_value[1].v, expr.pattern))
      [] expr.tag = "StartsWith" ->
            IF field_value = None THEN missing
            ELSE Ok(field_value[1].kind = "String"
                    /\ str_starts_with(field_value[1].v, expr.prefix))
      [] expr.tag = "EndsWith" ->
            IF field_value = None THEN missing
            ELSE Ok(field_value[1].kind = "String"
                    /\ str_ends_with(field_value[1].v, expr.suffix))
      [] expr.tag = "Exists" -> Ok(field_value # None)
      [] expr.tag = "NotExists" -> Ok(field_value = None)
      [] expr.tag = "Custom" -> Err(RuleEvaluationFailed(expr.predicate))

(* The number of children the loop of the And arm (stop = FALSE) or of the *)
(* Or arm (stop = TRUE) calls evaluate_expression for: the loop returns at *)
(* the first child that raises an error or evaluates to stop               *)
RECURSIVE ChildrenEvaluated(_, _, _)
ChildrenEvaluated(exprs, context, stop) ==
    IF exprs = <<>> THEN 0
    ELSE LET r == PolicyEvaluator_evaluate_expression(Head(exprs), context) IN
         IF ~r.ok \/ r.value = stop THEN 1
         ELSE 1 + ChildrenEvaluated(Tail(exprs), context, stop)

(* policy_evaluator.rs: PolicyEvaluator::evaluate_rule *)
PolicyEvaluator_evaluate_rule(rule, context) ==
    LET r == PolicyEvaluator_evaluate_expression(rule.expression, context) IN
    IF ~r.ok THEN r
    ELSE Ok([rule_id |-> rule.id,
             rule_name |-> rule.name,
             passed |-> r.value,
             message |-> IF r.value THEN <<"Rule", rule.name, "passed">>
                         ELSE IF rule.error_message # None
                              THEN <<rule.error_message[1]>>
                              ELSE <<"Rule", rule.name, "failed">>,
             severity |-> rule.severity,
             actual_value |-> None,
             expected_value |-> None])

(* entities.rs: RuleResult::to_violation *)
RuleResult_to_violation(r) ==
    [rule_id |-> r.rule_id, rule_description |-> r.rule_name,
     severity |-> r.severity, details |-> r.message,
     suggested_remediation |-> None]

(* rule_results.iter().filter(|r| !r.passed).map(|r| r.to_violation()) *)
RECURSIVE FailedToViolations(_)
FailedToViolations(rule_results) ==
    IF rule_results = <<>> THEN <<>>
    ELSE IF ~Head(rule_results).passed
         THEN <<RuleResult_to_violation(Head(rule_results))>>
                  \o FailedToViolations(Tail(rule_results))
         ELSE FailedToViolations(Tail(rule_results))

(* value_objects.rs: ComplianceResult *)
Compliant == [tag |-> "Compliant"]
NonCompliant(violations) == [tag |-> "NonCompliant", violations |-> violations]
CompliantWithExemption(exemption_id) ==
    [tag |-> "CompliantWithExemption", exemption_id |-> exemption_id]

(* value_objects.rs: ComplianceResult::is_compliant *)
ComplianceResult_is_compliant(result) ==
    result.tag \in {"Compliant", "CompliantWithExemption"}

(* entities.rs: PolicyEvaluation::new; the fresh id and the elapsed time   *)
(* are left out                                                            *)
PolicyEvaluation_new(policy_id, context, t) ==
    [policy_id |-> policy_id, evaluated_at |-> t, context |-> context,
     rule_results |-> <<>>, overall_result |-> Compliant]

(* entities.rs: PolicyEvaluation::add_rule_result; the violations are      *)
(* collected from the results held before the new one is pushed            *)
PolicyEvaluation_add_rule_result(evaluation, result) ==
    [evaluation EXCEPT
        !.overall_result =
            IF ~result.passed
            THEN NonCompliant(FailedToViolations(evaluation.rule_results))
            ELSE @,
        !.rule_results = Append(@, result)]

(* entities.rs: PolicyEvaluation::is_compliant and ::violations *)
PolicyEvaluation_is_compliant(evaluation) ==
    ComplianceResult_is_compliant(evaluation.overall_result)
PolicyEvaluation_violations(evaluation) ==
    FailedToViolations(evaluation.rule_results)

(* policy_evaluator.rs: PolicyEvaluator::evaluate_condition *)
RECURSIVE PolicyEvaluator_evaluate_condition(_, _)
PolicyEvaluator_evaluate_condition(condition, context) ==
    LET field_value == EvaluationContext_get_field(context, condition.field) IN
    IF field_value = None THEN FALSE
    ELSE CASE condition.operator = "Equals" ->
                 Value_eq(field_value[1], condition.value)
           [] condition.operator = "NotEquals" ->
                 ~Value_eq(field_value[1], condition.value)
           [] condition.operator = "GreaterThan" ->
                 PolicyEvaluator_compare_values(field_value[1], condition.value)
                     = Some("Greater")
           [] condition.operator = "LessThan" ->
                 PolicyEvaluator_compare_values(field_value[1], condition.value)
                     = Some("Less")
           [] condition.operator = "Contains" ->
                 ContainsMatch(field_value[1], condition.value)
           [] condition.operator = "NotContains" ->
                 ~PolicyEvaluator_evaluate_condition(
                      [condition EXCEPT !.operator = "Contains"], context)

(* The match on the scope in exemption_applies: Global always applies,     *)
(* User and Resource compare with the context, the other scopes never apply *)
ScopeApplies(scope, context) ==
    CASE scope.tag = "Global" -> TRUE
      [] scope.tag = "User" -> context.requester = Some(scope.user)
      [] scope.tag = "Resource" ->
            LET v == EvaluationContext_get_field(context, "resource") IN
            v # None /\ v[1].kind = "String" /\ v[1].v = scope.resource
      [] OTHER -> FALSE

(* A variant of exemption_applies that does not look at the conditions *)
PolicyEvaluator_exemption_applies_NoConditions(x, context, t) ==
    IF ~PolicyExemption_is_valid(x, t) THEN FALSE
    ELSE ScopeApplies(x.scope, context)

(* policy_evaluator.rs: PolicyEvaluator::exemption_applies, t is the value *)
(* of Utc::now() in is_valid                                               *)
PolicyEvaluator_exemption_applies(x, context, t) ==
    IF ~PolicyExemption_is_valid(x, t) THEN FALSE
    ELSE IF ~ScopeApplies(x.scope, context) THEN FALSE
    ELSE \A i \in 1..Len(x.conditions) :
             PolicyEvaluator_evaluate_condition(x.conditions[i], context)

(* The loop over the exemptions in evaluate: the index of the first one    *)
(* that applies, 0 when none does                                          *)
RECURSIVE FirstApplying(_, _, _, _)
FirstApplying(exemptions, i, context, t) ==
    IF i > Len(exemptions) THEN 0
    ELSE IF PolicyEvaluator_exemption_applies(exemptions[i], context, t) THEN i
    ELSE FirstApplying(exemptions, i + 1, context, t)

(* A variant of the loop over the rules that skips a rule whose evaluation *)
(* raises an error                                                         *)
RECURSIVE EvaluateRules_SkipErrors(_, _, _, _, _)
EvaluateRules_SkipErrors(rules, i, context, evaluation, called) ==
    IF i > Len(rules)
    THEN [result |-> Ok(evaluation), rules_evaluated |-> called]
    ELSE LET r == PolicyEvaluator_evaluate_rule(rules[i], context) IN
         EvaluateRules_SkipErrors(
             rules, i + 1, context,
             IF r.ok THEN PolicyEvaluation_add_rule_result(evaluation, r.value)
             ELSE evaluation,
             Append(called, rules[i].id))

(* The loop over the rules in evaluate: rules from index i on are evaluated *)
(* in order into the evaluation; the first error ends the loop.  called    *)
(* lists the rule ids evaluate_rule was called for.                        *)
RECURSIVE EvaluateRules(_, _, _, _, _)
EvaluateRules(rules, i, context, evaluation, called) ==
    IF i > Len(rules)
    THEN [result |-> Ok(evaluation), rules_evaluated |-> called]
    ELSE LET r == PolicyEvaluator_evaluate_rule(rules[i], context) IN
         IF ~r.ok
         THEN [result |-> r, rules_evaluated |-> Append(called, rules[i].id)]
         ELSE EvaluateRules(rules, i + 1, context,
                            PolicyEvaluation_add_rule_result(evaluation, r.value),
                            Append(called, rules[i].id))

(* policy_evaluator.rs: PolicyEvaluator::evaluate at time t, on the map of *)
(* registered exemptions; next to the Result, the ids of the exemptions    *)
(* exemption_applies was called for and of the rules evaluate_rule was     *)
(* called for                                                              *)
PolicyEvaluator_evaluate(exemptions, pol, context, t) ==
    IF ~Policy_is_effective(pol, t)
    THEN [result |-> Err(PolicyNotActive(pol.id)),
          exemptions_checked |-> <<>>, rules_evaluated |-> <<>>]
    ELSE LET evaluation == PolicyEvaluation_new(pol.id, context, t)
             mine == exemptions[pol.id]
             first == FirstApplying(mine, 1, context, t)
         IN
         IF first # 0
         THEN [result |-> Ok([evaluation EXCEPT !.overall_result =
                                  CompliantWithExemption(mine[first].id)]),
               exemptions_checked |-> [i \in 1..first |-> mine[i].id],
               rules_evaluated |-> <<>>]
         ELSE LET r == EvaluateRules(pol.rules, 1, context, evaluation, <<>>) IN
              [result |-> r.result,
               exemptions_checked |-> [i \in 1..Len(mine) |-> mine[i].id],
               rules_evaluated |-> r.rules_evaluated]

(* policies.into_iter().map(|p| self.evaluate(p, context)).collect(): the  *)
(* evaluations in order, or the first error                                *)
RECURSIVE CollectEvaluations(_, _, _, _)
CollectEvaluations(exemptions, policies, context, t) ==
    IF policies = <<>> THEN Ok(<<>>)
    ELSE LET r == PolicyEvaluator_evaluate(exemptions, Head(policies), context, t).result
         IN
         IF ~r.ok THEN r
         ELSE LET rest == CollectEvaluations(exemptions, Tail(policies), context, t) IN
              IF ~rest.ok THEN rest ELSE Ok(<<r.value>> \o rest.value)

(* evaluations.iter().flat_map(|e| e.violations()).collect() *)
RECURSIVE FlatMapViolations(_)
FlatMapViolations(evaluations) ==
    IF evaluations = <<>> THEN <<>>
    ELSE PolicyEvaluation_violations(Head(evaluations))
             \o FlatMapViolations(Tail(evaluations))

(* evaluations.iter().filter(|e| e.is_compliant()).count() *)
CountCompliant(evaluations) ==
    Cardinality({i \in 1..Len(evaluations) :
                    PolicyEvaluation_is_compliant(evaluations[i])})

(* aggregate.rs: CompositionRule *)
CompositionRule_All == [tag |-> "All"]
CompositionRule_Any == [tag |-> "Any"]
CompositionRule_Majority == [tag |-> "Majority"]
CompositionRule_AtLeast(n) == [tag |-> "AtLeast", n |-> n]

(* A variant of the conditions of evaluate_set where half of the members   *)
(* are a majority                                                          *)
CompositionHolds_HalfIsMajority(composition, evaluations) ==
    CASE composition.tag = "All" -> FlatMapViolations(evaluations) = <<>>
      [] composition.tag = "Any" -> CountCompliant(evaluations) >= 1
      [] composition.tag = "Majority" ->
            CountCompliant(evaluations) >= Len(evaluations) \div 2
      [] composition.tag = "AtLeast" -> CountCompliant(evaluations) >= composition.n

(* The condition each arm of the match in evaluate_set returns Compliant   *)
(* on                                                                      *)
CompositionHolds(composition, evaluations) ==
    CASE composition.tag = "All" -> FlatMapViolations(evaluations) = <<>>
      [] composition.tag = "Any" ->
            \E i \in 1..Len(evaluations) :
                PolicyEvaluation_is_compliant(evaluations[i])
      [] composition.tag = "Majority" ->
            CountCompliant(evaluations) > Len(evaluations) \div 2
      [] composition.tag = "AtLeast" -> CountCompliant(evaluations) >= composition.n

(* policy_evaluator.rs: PolicyEvaluator::evaluate_set at time t, a         *)
(* Result<ComplianceResult, EvaluationError>                               *)
PolicyEvaluator_evaluate_set(exemptions, policies, context, composition, t) ==
    LET results == CollectEvaluations(exemptions, policies, context, t) IN
    IF ~results.ok THEN results
    ELSE IF CompositionHolds(composition, results.value) THEN Ok(Compliant)
    ELSE Ok(NonCompliant(FlatMapViolations(results.value)))

(* The push loop of register_exemptions: the valid exemptions of the list  *)
(* are appended under their policy id                                      *)
RECURSIVE PolicyEvaluator_register_exemptions(_, _, _)
PolicyEvaluator_register_exemptions(map, exemptions, t) ==
    IF exemptions = <<>> THEN map
    ELSE LET x == Head(exemptions) IN
         PolicyEvaluator_register_exemptions(
             IF PolicyExemption_is_valid(x, t)
             THEN [map EXCEPT ![x.policy_id] = Append(@, x)]
             ELSE map,
             Tail(exemptions), t)

---------------------------------------------------------------------------
(* The evaluator: its map of registered exemptions, the clock, and the     *)
(* policies and contexts it is asked to evaluate                           *)

(* The strings "db", "d" and "web" as bytes *)
Str_db == <<100, 98>>
Str_d == <<100>>
Str_web == <<119, 101, 98>>

(* value_objects.rs: EvaluationContext; the contexts evaluated against: an *)
(* empty one and two requests                                              *)
EmptyContext == [fields |-> <<>>, requester |-> None]
AdminContext ==
    [fields |-> [f \in {"level", "resource"} |->
                   IF f = "level" THEN VInteger(1) ELSE VString(Str_db)],
     requester |-> Some("admin")]
GuestContext ==
    [fields |-> [f \in {"level", "resource"} |->
                   IF f = "level" THEN VInteger(0) ELSE VString(Str_web)],
     requester |-> Some("guest")]
EvaluationContexts == {EmptyContext, AdminContext, GuestContext}

(* entities.rs: PolicyRule; the rules the evaluated policies hold *)
RuleLevel ==
    [id |-> "r1", name |-> "level",
     expression |-> [tag |-> "GreaterThanOrEqual", field |-> "level",
                     value |-> VInteger(1)],
     severity |-> "High", error_message |-> None]
RuleCustom ==
    [id |-> "r2", name |-> "custom",
     expression |-> [tag |-> "Custom", predicate |-> "check"],
     severity |-> "Low", error_message |-> Some("custom")]
RuleResource ==
    [id |-> "r3", name |-> "resource",
     expression |->
        [tag |-> "Or",
         exprs |-> <<[tag |-> "StartsWith", field |-> "resource", prefix |-> Str_d],
                     [tag |-> "Not",
                      expr |-> [tag |-> "Exists", field |-> "level"]]>>],
     severity |-> "Critical", error_message |-> None]
RuleOwner ==
    [id |-> "r4", name |-> "owner",
     expression |-> [tag |-> "Equal", field |-> "owner", value |-> VString(Str_db)],
     severity |-> "Medium", error_message |-> None]
RuleLists ==
    {<<>>, <<RuleLevel>>, <<RuleCustom>>, <<RuleLevel, RuleResource>>,
     <<RuleLevel, RuleOwner>>}

(* The dates a policy's window is set to *)
WindowDates == {None, Some(0), Some(MaxTime)}

(* A policy "p1" in the given status, window and rules *)
PolicyWith(status, effective_date, expiry_date, rules) ==
    [Policy_new("p1", "policy", "policy", 0) EXCEPT
        !.status = status, !.effective_date = effective_date,
        !.expiry_date = expiry_date, !.rules = rules]

(* The policies evaluated for their lifecycle: an active policy in every    *)
(* window, every other status without and with a window                    *)
LifecyclePolicies ==
    {PolicyWith("Active", from, to, <<RuleLevel>>) :
         from \in WindowDates, to \in WindowDates}
    \cup {PolicyWith(status, None, None, <<RuleLevel>>) : status \in PolicyStatus}
    \cup {PolicyWith(status, Some(0), Some(MaxTime), <<RuleLevel>>) :
              status \in PolicyStatus}

(* The policies evaluated for their rules: active, with every rule list *)
RulePolicies == {PolicyWith("Active", None, None, rules) : rules \in RuleLists}

(* The calls of evaluate: the lifecycle policies on one request, the rule  *)
(* policies on every context                                               *)
EvaluationInputs ==
    {<<p, AdminContext>> : p \in LifecyclePolicies}
    \cup (RulePolicies \X EvaluationContexts)

(* An exemption of policy p1, global, without conditions, valid throughout *)
BaseExemption ==
    PolicyExemption_new("e1", "p1", "exempt", "exempt", "admin", MaxTime, 0)

(* aggregate.rs: ExemptionCondition *)
ConditionLevelOne ==
    [field |-> "level", operator |-> "Equals", value |-> VInteger(1)]

(* The exemptions handed to register_exemptions: the base exemption and    *)
(* the exemptions that differ from it in the policy, the scope, the        *)
(* conditions, the validity window or the status                           *)
ExemptionCandidates ==
    {BaseExemption,
     [BaseExemption EXCEPT !.policy_id = "p2"],
     [BaseExemption EXCEPT !.scope = [tag |-> "User", user |-> "admin"]],
     [BaseExemption EXCEPT !.scope = [tag |-> "Resource", resource |-> Str_db]],
     [BaseExemption EXCEPT !.scope = [tag |-> "Organization", organization |-> "o1"]],
     [BaseExemption EXCEPT !.scope = [tag |-> "Operation", operation |-> "Read"]],
     [BaseExemption EXCEPT !.conditions = <<ConditionLevelOne>>],
     [BaseExemption EXCEPT !.valid_until = 0],
     [BaseExemption EXCEPT !.valid_from = MaxTime],
     [BaseExemption EXCEPT !.status = ExemptionRevoked("admin", 0, "revoked")]}

(* ExemptionId::new(): the ids in the order they are handed out *)
ExemptionIdSeq == <<"e1", "e2">>

(* The ids no registered exemption carries, in that order *)
IsFree(id) ==
    \A p \in PolicyIds : \A i \in 1..Len(registered[p]) : registered[p][i].id # id
FreeIds == SelectSeq(ExemptionIdSeq, IsFree)

InitEvaluator ==
    /\ focus = "Policy"
    /\ policy = Policy_new("p1", "new", "new", 0)
    /\ policySet = PolicySet_new("s1", "new", "new", 0)
    /\ exemption = PolicyExemption_new("e1", "p1", "new", "new", "admin", MaxTime, 0)
    /\ ret = [op |-> "new", arg |-> "", ok |-> TRUE]
    /\ store = <<>>
    /\ loaded = NotLoaded
    /\ now = 0
    /\ resolving = NotResolving
    /\ saga = NoSaga
    /\ registered = [p \in PolicyIds |-> <<>>]
    /\ evaluated = NotEvaluated

(* evaluator.register_exemptions(exemptions), each exemption under an id   *)
(* of its own                                                              *)
RegisterExemptions ==
    /\ \E n \in 0..Len(FreeIds) :
       \E choice \in [1..n -> ExemptionCandidates] :
           registered' =
               PolicyEvaluator_register_exemptions(
                   registered,
                   [i \in 1..n |-> [choice[i] EXCEPT !.id = FreeIds[i]]],
                   now)
    /\ evaluated' = NotEvaluated
    /\ UNCHANGED <<aggregateVars, ret, repositoryVars, now, serviceVars>>

(* Time passes; what the last evaluate returned stays on record *)
Tick ==
    /\ now < MaxTime
    /\ now' = now + 1
    /\ UNCHANGED <<aggregateVars, ret,
                   repositoryVars, evaluatorVars, serviceVars>>

(* evaluator.evaluate(&policy, &context) *)
Evaluate ==
    /\ \E input \in EvaluationInputs :
           LET p == input[1]
               c == input[2]
               r == PolicyEvaluator_evaluate(registered, p, c, now)
           IN
           evaluated' = [called |-> TRUE, policy |-> p, context |-> c, at |-> now,
                         result |-> r.result,
                         exemptions_checked |-> r.exemptions_checked,
                         rules_evaluated |-> r.rules_evaluated]
    /\ UNCHANGED <<aggregateVars, ret,
                   repositoryVars, now, serviceVars, registered>>

NextEvaluator ==
    \/ RegisterExemptions
    \/ Tick
    \/ Evaluate

SpecEvaluator == InitEvaluator /\ [][NextEvaluator]_vars

---------------------------------------------------------------------------
(* Claims about the evaluator, checked under SpecEvaluator *)

(* C9: evaluate returns the PolicyNotActive error, without evaluating any  *)
(* exemption or rule, whenever the policy's status is not Active, or its   *)
(* effective_date is set and in the future, or its expiry_date is set and  *)
(* in the past.                                                            *)
C9_NotEffectiveRefused ==
    (/\ evaluated.called
     /\ \/ evaluated.policy.status # "Active"
        \/ /\ evaluated.policy.effective_date # None
           /\ evaluated.policy.effective_date[1] > evaluated.at
        \/ /\ evaluated.policy.expiry_date # None
           /\ evaluated.policy.expiry_date[1] < evaluated.at) =>
        /\ evaluated.result = Err(PolicyNotActive(evaluated.policy.id))
        /\ evaluated.exemptions_checked = <<>>
        /\ evaluated.rules_evaluated = <<>>

(* C9 witness: an active policy with rules has been refused after its      *)
(* expiry date, while an exemption that applies to the request is          *)
(* registered for it                                                       *)
C9_Witness ==
    /\ evaluated.called
    /\ evaluated.policy.status = "Active"
    /\ evaluated.policy.expiry_date = Some(0)
    /\ evaluated.at = MaxTime
    /\ evaluated.policy.rules # <<>>
    /\ registered[evaluated.policy.id] # <<>>
    /\ PolicyEvaluator_exemption_applies(
           registered[evaluated.policy.id][1], evaluated.context, evaluated.at)
    /\ evaluated.result = Err(PolicyNotActive("p1"))

(* The scope of an exemption matches a context: Global always, User the    *)
(* requester, Resource the resource field; the other scopes never          *)
SpecScopeMatches(scope, context) ==
    \/ scope.tag = "Global"
    \/ scope.tag = "User" /\ context.requester = <<scope.user>>
    \/ /\ scope.tag = "Resource"
       /\ "resource" \in DOMAIN context.fields
       /\ context.fields["resource"] = [kind |-> "String", v |-> scope.resource]

(* An exemption is usable for a context at time t: it is Active, t is in   *)
(* its validity window, its scope matches and every condition holds        *)
SpecExemptionUsable(x, context, t) ==
    /\ x.status.tag = "Active"
    /\ x.valid_from <= t /\ t <= x.valid_until
    /\ SpecScopeMatches(x.scope, context)
    /\ \A i \in 1..Len(x.conditions) :
           PolicyEvaluator_evaluate_condition(x.conditions[i], context)

C11_NonCompliantListsEveryFailure ==
    (/\ evaluated.called
     /\ evaluated.result.ok
     /\ evaluated.result.value.overall_result.tag = "NonCompliant") =>
        evaluated.result.value.overall_result.violations
            = PolicyEvaluation_violations(evaluated.result.value)

Outcome(result) ==
    IF result.ok THEN Ok(result.value.overall_result) ELSE result

(* C15: for any policy p and context c, two calls of evaluate(p, c) on the *)
(* same evaluator with the same registered exemptions yield the same       *)
(* outcome: the same error, or evaluations with identical overall          *)
(* ComplianceResult.                                                       *)
C15_EvaluateDeterministic ==
    [][(/\ evaluated.called
        /\ evaluated'.called
        /\ evaluated'.policy = evaluated.policy
        /\ evaluated'.context = evaluated.context
        /\ registered' = registered) =>
           Outcome(evaluated'.result) = Outcome(evaluated.result)]_vars

---------------------------------------------------------------------------
(* evaluate_expression on And and Or expressions: the expression and the   *)
(* context are drawn at the start, the one step evaluates                  *)

(* value_objects.rs: RuleExpression; the children of the And and Or        *)
(* expressions: one that holds when level is there, one that reads a field *)
(* no context holds, one that always raises an error, one that holds on    *)
(* level 1, and a nested Or                                                *)
ChildExpressions ==
    {[tag |-> "Exists", field |-> "level"],
     [tag |-> "LessThan", field |-> "owner", value |-> VInteger(1)],
     [tag |-> "Custom", predicate |-> "check"],
     [tag |-> "GreaterThanOrEqual", field |-> "level", value |-> VInteger(1)],
     [tag |-> "Or",
      exprs |-> <<[tag |-> "NotExists", field |-> "level"],
                  [tag |-> "Custom", predicate |-> "nested"]>>]}

ChildLists == UNION {[1..n -> ChildExpressions] : n \in 0..MaxChildren}

ShortCircuitExpressions ==
    {[tag |-> tag, exprs |-> exprs] : tag \in {"And", "Or"}, exprs \in ChildLists}

InitExpressions ==
    /\ focus = "Policy"
    /\ policy = Policy_new("p1", "new", "new", 0)
    /\ policySet = PolicySet_new("s1", "new", "new", 0)
    /\ exemption = PolicyExemption_new("e1", "p1", "new", "new", "admin", MaxTime, 0)
    /\ ret = [op |-> "new", arg |-> "", ok |-> TRUE]
    /\ store = <<>>
    /\ loaded = NotLoaded
    /\ now = 0
    /\ resolving = NotResolving
    /\ saga = NoSaga
    /\ registered = [p \in PolicyIds |-> <<>>]
    /\ \E expr \in ShortCircuitExpressions, context \in EvaluationContexts :
           evaluated = [called |-> FALSE, expr |-> expr, context |-> context]

(* self.evaluate_expression(&expr, context) *)
EvaluateExpression ==
    /\ ~evaluated.called
    /\ evaluated' =
           [called |-> TRUE, expr |-> evaluated.expr, context |-> evaluated.context,
            result |-> PolicyEvaluator_evaluate_expression(
                           evaluated.expr, evaluated.context),
            children_evaluated |->
                ChildrenEvaluated(evaluated.expr.exprs, evaluated.context,
                                  evaluated.expr.tag = "Or")]
    /\ UNCHANGED <<aggregateVars, ret,
                   repositoryVars, now, serviceVars, registered>>

NextExpressions == EvaluateExpression

SpecExpressions == InitExpressions /\ [][NextExpressions]_vars

(* C13: evaluating And stops at the first child that evaluates to false    *)
(* and Or at the first child that evaluates to true: the children after it *)
(* are not evaluated, so an error they would raise does not surface, while *)
(* an error raised by a child before that point is returned.               *)
C13_ShortCircuit ==
    evaluated.called =>
        LET children == evaluated.expr.exprs
            stop == (evaluated.expr.tag = "Or")
            results == [i \in 1..Len(children) |->
                           PolicyEvaluator_evaluate_expression(
                               children[i], evaluated.context)]
            ending == {i \in 1..Len(children) :
                          ~results[i].ok \/ results[i].value = stop}
            first == CHOOSE i \in ending : \A j \in ending : i <= j
        IN
        IF ending = {}
        THEN /\ evaluated.result = Ok(~stop)
             /\ evaluated.children_evaluated = Len(children)
        ELSE /\ evaluated.children_evaluated = first
             /\ evaluated.result =
                    IF results[first].ok THEN Ok(stop) ELSE results[first]

(* C13 witness: an And whose second child is false and whose third child   *)
(* would raise an error has evaluated to false after two children          *)
C13_Witness ==
    /\ evaluated.called
    /\ evaluated.expr.tag = "And"
    /\ Len(evaluated.expr.exprs) = 3
    /\ PolicyEvaluator_evaluate_expression(
           evaluated.expr.exprs[1], evaluated.context) = Ok(TRUE)
    /\ PolicyEvaluator_evaluate_expression(
           evaluated.expr.exprs[2], evaluated.context) = Ok(FALSE)
    /\ ~PolicyEvaluator_evaluate_expression(
            evaluated.expr.exprs[3], evaluated.context).ok
    /\ evaluated.children_evaluated = 2
    /\ evaluated.result = Ok(FALSE)

---------------------------------------------------------------------------
(* evaluate_set: the evaluator's exemptions, the clock, the member         *)
(* policies, the context and the composition rule are drawn at the start,  *)
(* the one step evaluates the set                                          *)

(* The member policies: one without rules, one that holds on level 1, one  *)
(* of another id with two rules, and one whose rule raises an error        *)
MemberPolicies ==
    {PolicyWith("Active", None, None, <<>>),
     PolicyWith("Active", None, None, <<RuleLevel>>),
     [PolicyWith("Active", None, None, <<RuleLevel, RuleResource>>) EXCEPT !.id = "p2"],
     PolicyWith("Active", None, None, <<RuleCustom>>)}

MemberLists == UNION {[1..n -> MemberPolicies] : n \in 0..MaxMembers}

CompositionRules ==
    {CompositionRule_All, CompositionRule_Any, CompositionRule_Majority}
    \cup {CompositionRule_AtLeast(n) : n \in 0..(MaxMembers + 1)}

(* The exemptions registered with the evaluator: none, one for p1, one for p2 *)
MemberExemptions ==
    {[p \in PolicyIds |-> <<>>],
     [p \in PolicyIds |-> IF p = "p1" THEN <<BaseExemption>> ELSE <<>>],
     [p \in PolicyIds |->
         IF p = "p2" THEN <<[BaseExemption EXCEPT !.policy_id = "p2"]>> ELSE <<>>]}

InitEvaluateSet ==
    /\ focus = "PolicySet"
    /\ policy = Policy_new("p1", "new", "new", 0)
    /\ policySet = PolicySet_new("s1", "new", "new", 0)
    /\ exemption = PolicyExemption_new("e1", "p1", "new", "new", "admin", MaxTime, 0)
    /\ ret = [op |-> "new", arg |-> "", ok |-> TRUE]
    /\ store = <<>>
    /\ loaded = NotLoaded
    /\ now \in Times
    /\ resolving = NotResolving
    /\ saga = NoSaga
    /\ registered \in MemberExemptions
    /\ \E policies \in MemberLists, context \in {AdminContext, GuestContext},
          composition \in CompositionRules :
           evaluated = [called |-> FALSE, policies |-> policies,
                        context |-> context, composition |-> composition]

(* evaluator.evaluate_set(policies, &context, composition) *)
EvaluateSet ==
    /\ ~evaluated.called
    /\ evaluated' =
           [called |-> TRUE, policies |-> evaluated.policies,
            context |-> evaluated.context, composition |-> evaluated.composition,
            at |-> now,
            result |-> PolicyEvaluator_evaluate_set(
                           registered, evaluated.policies, evaluated.context,
                           evaluated.composition, now)]
    /\ UNCHANGED <<aggregateVars, ret,
                   repositoryVars, now, serviceVars, registered>>

NextEvaluateSet == EvaluateSet

SpecEvaluateSet == InitEvaluateSet /\ [][NextEvaluateSet]_vars

(* The evaluation of member i of the set just evaluated *)
MemberResult(i) ==
    PolicyEvaluator_evaluate(
        registered, evaluated.policies[i], evaluated.context, evaluated.at).result

(* The members found compliant *)
CompliantMembers ==
    {i \in 1..Len(evaluated.policies) :
        ComplianceResult_is_compliant(MemberResult(i).value.overall_result)}

(* C14: when every member policy evaluates without error, evaluate_set     *)
(* returns Compliant exactly when the number c of compliant members out of *)
(* t satisfies the composition rule (All: c = t; Any: c >= 1; Majority:    *)
(* 2c > t; AtLeast(n): c >= n) and NonCompliant otherwise.                 *)
C14_CompositionRule ==
    (/\ evaluated.called
     /\ \A i \in 1..Len(evaluated.policies) : MemberResult(i).ok) =>
        LET c == Cardinality(CompliantMembers)
            t == Len(evaluated.policies)
            rule == evaluated.composition
            satisfied ==
                CASE rule.tag = "All" -> c = t
                  [] rule.tag = "Any" -> c >= 1
                  [] rule.tag = "Majority" -> 2 * c > t
                  [] rule.tag = "AtLeast" -> c >= rule.n
        IN
        /\ evaluated.result.ok
        /\ evaluated.result.value.tag = IF satisfied THEN "Compliant" ELSE "NonCompliant"

(* C14 witness: under Majority, one compliant member of two has given      *)
(* NonCompliant                                                            *)
C14_Witness ==
    /\ evaluated.called
    /\ evaluated.composition = CompositionRule_Majority
    /\ Len(evaluated.policies) = 2
    /\ \A i \in 1..2 : MemberResult(i).ok
    /\ Cardinality(CompliantMembers) = 1
    /\ evaluated.result.ok
    /\ evaluated.result.value.tag = "NonCompliant"

---------------------------------------------------------------------------
(* services/conflict_resolver.rs: PolicyConflictResolver *)

(* conflict_resolver.rs: PolicyConflictResolver::targets_overlap *)
RECURSIVE PolicyConflictResolver_targets_overlap(_, _)
PolicyConflictResolver_targets_overlap(target1, target2) ==
    IF target1.tag = "Global" \/ target2.tag = "Global" THEN TRUE
    ELSE IF /\ target1.tag = target2.tag
            /\ target1.tag \in {"Organization", "OrganizationUnit", "Role",
                                "Resource", "Operation"}
    THEN target1.v = target2.v
    ELSE IF target1.tag = "Composite" /\ target2.tag = "Composite"
    THEN \E i \in 1..Len(target1.targets) : \E j \in 1..Len(target2.targets) :
             PolicyConflictResolver_targets_overlap(
                 target1.targets[i], target2.targets[j])
    ELSE IF target1.tag = "Composite"
    THEN \E i \in 1..Len(target1.targets) :
             PolicyConflictResolver_targets_overlap(target1.targets[i], target2)
    ELSE IF target2.tag = "Composite"
    THEN \E i \in 1..Len(target2.targets) :
             PolicyConflictResolver_targets_overlap(target2.targets[i], target1)
    ELSE FALSE

(* conflict_resolver.rs: PolicyConflictResolver::extract_fields; a Custom  *)
(* expression gives the keys of its args                                   *)
RECURSIVE PolicyConflictResolver_extract_fields(_)
PolicyConflictResolver_extract_fields(expr) ==
    CASE expr.tag \in {"And", "Or"} ->
            UNION {PolicyConflictResolver_extract_fields(expr.exprs[i]) :
                       i \in 1..Len(expr.exprs)}
      [] expr.tag = "Not" -> PolicyConflictResolver_extract_fields(expr.expr)
      [] expr.tag = "Custom" ->
            IF "args" \in DOMAIN expr THEN DOMAIN expr.args ELSE {}
      [] OTHER -> {expr.field}

(* conflict_resolver.rs: PolicyConflictResolver::compare_values *)
PolicyConflictResolver_compare_values(a, b) ==
    CASE a.kind = "Integer" /\ b.kind = "Integer" -> Some(Integer_cmp(a.v, b.v))
      [] a.kind = "Float" /\ b.kind = "Float" ->
            IF a.nan \/ b.nan THEN None ELSE Some(Integer_cmp(a.v, b.v))
      [] a.kind = "String" /\ b.kind = "String" -> Some(String_cmp(a.v, b.v))
      [] OTHER -> None

(* A variant of are_contradictory that takes GreaterThan and               *)
(* LessThanOrEqual for contradictory only when the values compare as       *)
(* Greater or Equal                                                        *)
PolicyConflictResolver_are_contradictory_Comparable(expr1, expr2) ==
    CASE expr1.tag = "Equal" /\ expr2.tag = "Equal" ->
            expr1.field = expr2.field /\ ~Value_eq(expr1.value, expr2.value)
      [] expr1.tag = "Equal" /\ expr2.tag = "NotEqual" ->
            expr1.field = expr2.field /\ Value_eq(expr1.value, expr2.value)
      [] expr1.tag = "GreaterThan" /\ expr2.tag = "LessThanOrEqual" ->
            /\ expr1.field = expr2.field
            /\ PolicyConflictResolver_compare_values(expr1.value, expr2.value)
                   \in {Some("Greater"), Some("Equal")}
      [] expr1.tag = "Exists" /\ expr2.tag = "NotExists" ->
            expr1.field = expr2.field
      [] OTHER -> FALSE

(* conflict_resolver.rs: PolicyConflictResolver::are_contradictory *)
PolicyConflictResolver_are_contradictory(expr1, expr2) ==
    CASE expr1.tag = "Equal" /\ expr2.tag = "Equal" ->
            expr1.field = expr2.field /\ ~Value_eq(expr1.value, expr2.value)
      [] expr1.tag = "Equal" /\ expr2.tag = "NotEqual" ->
            expr1.field = expr2.field /\ Value_eq(expr1.value, expr2.value)
      [] expr1.tag = "GreaterThan" /\ expr2.tag = "LessThanOrEqual" ->
            /\ expr1.field = expr2.field
            /\ PolicyConflictResolver_compare_values(expr1.value, expr2.value)
                   # Some("Less")
      [] expr1.tag = "Exists" /\ expr2.tag = "NotExists" ->
            expr1.field = expr2.field
      [] OTHER -> FALSE

(* HashSet::is_subset on the values of two In expressions *)
IsSubset(values1, values2) ==
    \A i \in 1..Len(values1) : Values_contains(values2, values1[i])

(* conflict_resolver.rs: PolicyConflictResolver::are_overlapping *)
PolicyConflictResolver_are_overlapping(expr1, expr2) ==
    IF expr1.tag = "In" /\ expr2.tag = "In"
    THEN IF expr1.field = expr2.field
         THEN /\ ~IsSubset(expr1.values, expr2.values)
              /\ ~IsSubset(expr2.values, expr1.values)
         ELSE FALSE
    ELSE FALSE

(* conflict_resolver.rs: PolicyConflictResolver::create_impossible_condition *)
PolicyConflictResolver_create_impossible_condition(expr1, expr2) ==
    IF expr1.tag = "GreaterThan" /\ expr2.tag = "LessThan"
    THEN /\ expr1.field = expr2.field
         /\ PolicyConflictResolver_compare_values(expr1.value, expr2.value)
                # Some("Less")
    ELSE FALSE

(* conflict_resolver.rs: PolicyConflictResolver::check_rule_conflict, an   *)
(* Option<ConflictType>                                                    *)
PolicyConflictResolver_check_rule_conflict(rule1, rule2) ==
    LET fields1 == PolicyConflictResolver_extract_fields(rule1.expression)
        fields2 == PolicyConflictResolver_extract_fields(rule2.expression)
    IN
    IF fields1 \cap fields2 = {} THEN None
    ELSE IF PolicyConflictResolver_are_contradictory(
                rule1.expression, rule2.expression)
    THEN Some("Contradiction")
    ELSE IF PolicyConflictResolver_are_overlapping(
                rule1.expression, rule2.expression)
    THEN Some("Overlap")
    ELSE IF PolicyConflictResolver_create_impossible_condition(
                rule1.expression, rule2.expression)
    THEN Some("Impossible")
    ELSE None

(* entities.rs: PolicyConflict, as check_policy_pair builds it; the fresh  *)
(* id is left out, the description is the four names it is formatted from *)
PolicyConflict(strategy, policy1, policy2, rule1, rule2, conflict_type, t) ==
    [policy_ids |-> <<policy1.id, policy2.id>>,
     conflict_type |-> conflict_type,
     description |-> <<rule1.name, policy1.name, rule2.name, policy2.name>>,
     detected_at |-> t,
     resolution |-> Some(strategy)]

(* The loops over the rules in check_policy_pair, from the pair (i, j) on: *)
(* rule i of policy1 against rule j of policy2, policy2's rules innermost; *)
(* the first pair in conflict gives the PolicyConflict                     *)
RECURSIVE FirstRuleConflict(_, _, _, _, _, _)
FirstRuleConflict(strategy, policy1, policy2, i, j, t) ==
    IF i > Len(policy1.rules) THEN None
    ELSE IF j > Len(policy2.rules)
    THEN FirstRuleConflict(strategy, policy1, policy2, i + 1, 1, t)
    ELSE LET conflict_type == PolicyConflictResolver_check_rule_conflict(
                                  policy1.rules[i], policy2.rules[j])
         IN
         IF conflict_type # None
         THEN Some(PolicyConflict(strategy, policy1, policy2, policy1.rules[i],
                                  policy2.rules[j], conflict_type[1], t))
         ELSE FirstRuleConflict(strategy, policy1, policy2, i, j + 1, t)

(* A variant of check_policy_pair that does not look at the targets *)
PolicyConflictResolver_check_policy_pair_AnyTarget(strategy, policy1, policy2, t) ==
    FirstRuleConflict(strategy, policy1, policy2, 1, 1, t)

(* conflict_resolver.rs: PolicyConflictResolver::check_policy_pair, an     *)
(* Option<PolicyConflict>; strategy is self.resolution_strategy            *)
PolicyConflictResolver_check_policy_pair(strategy, policy1, policy2, t) ==
    IF ~PolicyConflictResolver_targets_overlap(policy1.target, policy2.target)
    THEN None
    ELSE FirstRuleConflict(strategy, policy1, policy2, 1, 1, t)

(* The loops of detect_conflicts from the pair (i, j) on, i < j *)
RECURSIVE DetectFrom(_, _, _, _, _)
DetectFrom(strategy, policies, i, j, t) ==
    IF i > Len(policies) THEN <<>>
    ELSE IF j > Len(policies) THEN DetectFrom(strategy, policies, i + 1, i + 2, t)
    ELSE PolicyConflictResolver_check_policy_pair(
             strategy, policies[i], policies[j], t)
             \o DetectFrom(strategy, policies, i, j + 1, t)

(* conflict_resolver.rs: PolicyConflictResolver::detect_conflicts *)
PolicyConflictResolver_detect_conflicts(strategy, policies, t) ==
    DetectFrom(strategy, policies, 1, 2, t)

(* conflict_resolver.rs: ConflictResolutionError *)
NoPolicies == [kind |-> "NoPolicies"]
IrreconcilableConflict(message) ==
    [kind |-> "IrreconcilableConflict", message |-> message]

(* The derived Ord of EnforcementLevel and of Severity: the position of    *)
(* the variant                                                             *)
EnforcementLevel_rank(level) ==
    CASE level = "Advisory" -> 0
      [] level = "Soft" -> 1
      [] level = "Hard" -> 2
      [] level = "Critical" -> 3
Severity_rank(severity) ==
    CASE severity = "Info" -> 0
      [] severity = "Low" -> 1
      [] severity = "Medium" -> 2
      [] severity = "High" -> 3
      [] severity = "Critical" -> 4

(* slice::sort_by_key, a stable sort: seq ordered by the keys of its       *)
(* elements, elements of equal key in their original order                 *)
sort_by_key(seq, keys) ==
    LET position(i) ==
            1 + Cardinality({j \in 1..Len(seq) :
                                \/ keys[j] < keys[i]
                                \/ keys[j] = keys[i] /\ j < i})
    IN
    [k \in 1..Len(seq) |-> seq[CHOOSE i \in 1..Len(seq) : position(i) = k]]

(* conflict_resolver.rs: PolicyConflictResolver::apply_most_restrictive and *)
(* ::apply_least_restrictive                                               *)
PolicyConflictResolver_apply_most_restrictive(policies) ==
    sort_by_key(policies,
                [i \in 1..Len(policies) |->
                    0 - EnforcementLevel_rank(policies[i].enforcement_level)])
PolicyConflictResolver_apply_least_restrictive(policies) ==
    sort_by_key(policies,
                [i \in 1..Len(policies) |->
                    EnforcementLevel_rank(policies[i].enforcement_level)])

(* Vec::reverse *)
reverse(seq) == [i \in 1..Len(seq) |-> seq[Len(seq) + 1 - i]]

(* A variant of resolve_conflicts that looks at the strategy before the    *)
(* conflicts: FailOnConflict fails also when there is no conflict          *)
PolicyConflictResolver_resolve_conflicts_StrategyFirst(strategy, policies, conflicts) ==
    IF policies = <<>> THEN Err(NoPolicies)
    ELSE IF strategy = "FailOnConflict"
    THEN Err(IrreconcilableConflict(
                 <<"Found", Len(conflicts), "unresolvable conflicts">>))
    ELSE IF conflicts = <<>> THEN Ok(policies)
    ELSE CASE strategy = "MostRestrictive" ->
                 Ok(PolicyConflictResolver_apply_most_restrictive(policies))
           [] strategy = "LeastRestrictive" ->
                 Ok(PolicyConflictResolver_apply_least_restrictive(policies))
           [] strategy = "FirstWins" -> Ok(policies)
           [] strategy = "LastWins" -> Ok(reverse(policies))

(* conflict_resolver.rs: PolicyConflictResolver::resolve_conflicts *)
PolicyConflictResolver_resolve_conflicts(strategy, policies, conflicts) ==
    IF policies = <<>> THEN Err(NoPolicies)
    ELSE IF conflicts = <<>> THEN Ok(policies)
    ELSE CASE strategy = "MostRestrictive" ->
                 Ok(PolicyConflictResolver_apply_most_restrictive(policies))
           [] strategy = "LeastRestrictive" ->
                 Ok(PolicyConflictResolver_apply_least_restrictive(policies))
           [] strategy = "FirstWins" -> Ok(policies)
           [] strategy = "LastWins" -> Ok(reverse(policies))
           [] strategy = "FailOnConflict" ->
                 Err(IrreconcilableConflict(
                         <<"Found", Len(conflicts), "unresolvable conflicts">>))

(* policies[1..].iter() extended into all_rules: the rules of the policies *)
(* from index i on                                                         *)
RECURSIVE AllRules(_, _)
AllRules(policies, i) ==
    IF i > Len(policies) THEN <<>>
    ELSE policies[i].rules \o AllRules(policies, i + 1)

(* Vec::insert(0, rule) *)
InsertFirst(seq, x) == <<x>> \o seq

(* The loop over all_rules in merge_policies: rules is merged.rules, the   *)
(* result a Result<Vec<PolicyRule>, ConflictResolutionError>               *)
RECURSIVE MergeRules(_, _, _)
MergeRules(strategy, rules, all_rules) ==
    IF all_rules = <<>> THEN Ok(rules)
    ELSE LET rule == Head(all_rules)
             conflicts_with_existing ==
                 \E i \in 1..Len(rules) :
                     PolicyConflictResolver_check_rule_conflict(rules[i], rule) # None
         IN
         IF ~conflicts_with_existing
         THEN MergeRules(strategy, Append(rules, rule), Tail(all_rules))
         ELSE CASE strategy = "MostRestrictive" ->
                      MergeRules(strategy,
                                 IF Severity_rank(rule.severity)
                                        > Severity_rank(rules[1].severity)
                                 THEN InsertFirst(rules, rule) ELSE rules,
                                 Tail(all_rules))
                [] strategy = "LeastRestrictive" ->
                      MergeRules(strategy,
                                 IF Severity_rank(rule.severity)
                                        < Severity_rank(rules[1].severity)
                                 THEN InsertFirst(rules, rule) ELSE rules,
                                 Tail(all_rules))
                [] strategy = "LastWins" ->
                      MergeRules(strategy, Append(rules, rule), Tail(all_rules))
                [] strategy = "FirstWins" ->
                      MergeRules(strategy, rules, Tail(all_rules))
                [] strategy = "FailOnConflict" ->
                      Err(IrreconcilableConflict("Cannot merge policies with conflicts"))

(* conflict_resolver.rs: PolicyConflictResolver::merge_policies *)
PolicyConflictResolver_merge_policies(strategy, policies) ==
    IF policies = <<>> THEN Err(NoPolicies)
    ELSE LET rules == MergeRules(strategy, policies[1].rules, AllRules(policies, 2)) IN
         IF ~rules.ok THEN rules
         ELSE Ok([policies[1] EXCEPT
                     !.name = <<"Merged Policy Set", Len(policies)>>,
                     !.description = "Automatically merged policy set",
                     !.rules = rules.value])

---------------------------------------------------------------------------
(* The conflict resolver: its strategy is drawn at the start, the one step *)
(* is a call of detect_conflicts, resolve_conflicts or merge_policies      *)

(* aggregate.rs: ConflictResolution *)
ConflictResolution ==
    {"MostRestrictive", "LeastRestrictive", "FirstWins", "LastWins",
     "FailOnConflict"}

(* entities.rs: PolicyRule::new, under the id and name n *)
ConflictRule(n, expression, severity) ==
    [id |-> n, name |-> n, expression |-> expression, severity |-> severity,
     error_message |-> None]

(* The values the compared rules carry: integers, strings, floats, NaN, a  *)
(* boolean and Null                                                        *)
ConflictValues ==
    <<VInteger(1), VInteger(2), VString(Str_d), VString(Str_db), VFloat(1),
      VNaN, VBool(TRUE), VNull>>

(* The ordering rules on field f: GreaterThan, LessThanOrEqual and         *)
(* LessThan, each with every value                                         *)
OrderingTags == <<"GreaterThan", "LessThanOrEqual", "LessThan">>
OrderingRules ==
    [n \in 1..(Len(OrderingTags) * Len(ConflictValues)) |->
        ConflictRule(n,
                     [tag |-> OrderingTags[((n - 1) \div Len(ConflictValues)) + 1],
                      field |-> "f",
                      value |-> ConflictValues[((n - 1) % Len(ConflictValues)) + 1]],
                     "Medium")]

(* The other rules: equalities, memberships, existence, rules on field g,  *)
(* nested and custom expressions                                           *)
OtherExpressions ==
    <<[tag |-> "Equal", field |-> "f", value |-> VInteger(1)],
      [tag |-> "Equal", field |-> "f", value |-> VInteger(2)],
      [tag |-> "Equal", field |-> "f", value |-> VNaN],
      [tag |-> "NotEqual", field |-> "f", value |-> VInteger(1)],
      [tag |-> "NotEqual", field |-> "f", value |-> VString(Str_d)],
      [tag |-> "In", field |-> "f", values |-> <<VInteger(1), VInteger(2)>>],
      [tag |-> "In", field |-> "f", values |-> <<VInteger(2), VString(Str_d)>>],
      [tag |-> "In", field |-> "f", values |-> <<VInteger(2)>>],
      [tag |-> "In", field |-> "g", values |-> <<VInteger(1)>>],
      [tag |-> "Exists", field |-> "f"],
      [tag |-> "NotExists", field |-> "f"],
      [tag |-> "NotExists", field |-> "g"],
      [tag |-> "Equal", field |-> "g", value |-> VInteger(2)],
      [tag |-> "GreaterThan", field |-> "g", value |-> VInteger(2)],
      [tag |-> "LessThan", field |-> "g", value |-> VInteger(1)],
      [tag |-> "And",
       exprs |-> <<[tag |-> "Equal", field |-> "g", value |-> VInteger(1)],
                   [tag |-> "Exists", field |-> "f"]>>],
      [tag |-> "Not",
       expr |-> [tag |-> "Equal", field |-> "f", value |-> VInteger(1)]],
      [tag |-> "Custom", predicate |-> "check"]>>
OtherRules ==
    [n \in 1..Len(OtherExpressions) |->
        ConflictRule(Len(OrderingRules) + n, OtherExpressions[n],
                     IF n = 1 THEN "Low" ELSE IF n = 2 THEN "High" ELSE "Medium")]

ConflictRules == OrderingRules \o OtherRules

(* The rules the longer rule lists are made of: two equalities on f of     *)
(* severity Low and High, GreaterThan{f, 2}, LessThan{f, 1} and an         *)
(* equality on g                                                           *)
ListRules ==
    <<OtherRules[1], OtherRules[2], OrderingRules[2],
      OrderingRules[2 * Len(ConflictValues) + 1], OtherRules[13]>>
RuleListChoices == UNION {[1..n -> 1..Len(ListRules)] : n \in 0..2}
RuleList(choice) == [i \in 1..Len(choice) |-> ListRules[choice[i]]]

(* The targets of the policies *)
ConflictTargets ==
    <<PolicyTarget_Global,
      PolicyTarget_Organization("o1"),
      PolicyTarget_Organization("o2"),
      PolicyTarget_Role("o1"),
      PolicyTarget_Composite(<<>>),
      PolicyTarget_Composite(<<PolicyTarget_Organization("o1")>>),
      PolicyTarget_Composite(<<PolicyTarget_Organization("o2"),
                               PolicyTarget_Role("o1")>>)>>

(* An active policy of the given id, target, rules and enforcement level *)
ConflictPolicy(id, target, rules, enforcement_level) ==
    [Policy_new(id, id, "policy", 0) EXCEPT
        !.status = "Active", !.target = target, !.rules = rules,
        !.enforcement_level = enforcement_level]

(* The policies the longer policy lists are made of *)
ListPolicies ==
    <<ConflictPolicy("p1", PolicyTarget_Global, <<OtherRules[1]>>, "Hard"),
      ConflictPolicy("p2", PolicyTarget_Organization("o1"),
                     <<OtherRules[2]>>, "Advisory"),
      ConflictPolicy("p3", PolicyTarget_Organization("o1"),
                     <<OtherRules[1], OrderingRules[1]>>, "Hard")>>
PolicyListChoices == UNION {[1..n -> 1..Len(ListPolicies)] : n \in 0..MaxPolicies}
PolicyList(choice) == [i \in 1..Len(choice) |-> ListPolicies[choice[i]]]

(* Two global policies of the given rules *)
PolicyPair(rules1, rules2) ==
    <<ConflictPolicy("p1", PolicyTarget_Global, rules1, "Soft"),
      ConflictPolicy("p2", PolicyTarget_Global, rules2, "Soft")>>

InitConflicts ==
    /\ focus = "Policy"
    /\ policy = Policy_new("p1", "new", "new", 0)
    /\ policySet = PolicySet_new("s1", "new", "new", 0)
    /\ exemption = PolicyExemption_new("e1", "p1", "new", "new", "admin", MaxTime, 0)
    /\ ret = [op |-> "new", arg |-> "", ok |-> TRUE]
    /\ store = <<>>
    /\ loaded = NotLoaded
    /\ now = 0
    /\ registered = [p \in PolicyIds |-> <<>>]
    /\ evaluated = NotEvaluated
    /\ \E strategy \in ConflictResolution :
           resolving = [called |-> FALSE, strategy |-> strategy]
    /\ saga = NoSaga

(* The call op(policies, conflicts) of the resolver returns *)
Resolved(op, policies, conflicts, result) ==
    /\ resolving' = [called |-> TRUE, strategy |-> resolving.strategy, op |-> op,
                     policies |-> policies, conflicts |-> conflicts,
                     at |-> now, result |-> result]
    /\ UNCHANGED <<aggregateVars, ret, repositoryVars, now, evaluatorVars, saga>>

(* resolver.detect_conflicts(&policies): two policies of one rule each,    *)
(* two policies of every pair of targets, two policies of up to two rules  *)
(* each, and lists of up to MaxPolicies policies                           *)
DetectConflicts ==
    /\ ~resolving.called
    /\ LET Detect(policies) ==
               Resolved("detect_conflicts", policies, <<>>,
                        PolicyConflictResolver_detect_conflicts(
                            resolving.strategy, policies, now))
       IN
       \/ \E i \in 1..Len(ConflictRules), j \in 1..Len(ConflictRules) :
              Detect(PolicyPair(<<ConflictRules[i]>>, <<ConflictRules[j]>>))
       \/ \E i \in 1..Len(ConflictTargets), j \in 1..Len(ConflictTargets) :
              Detect(<<ConflictPolicy("p1", ConflictTargets[i],
                                      <<OtherRules[1]>>, "Soft"),
                       ConflictPolicy("p2", ConflictTargets[j],
                                      <<OtherRules[2]>>, "Soft")>>)
       \/ \E choice1 \in RuleListChoices, choice2 \in RuleListChoices :
              Detect(PolicyPair(RuleList(choice1), RuleList(choice2)))
       \/ \E choice \in PolicyListChoices : Detect(PolicyList(choice))

(* A conflict that was not detected among the policies handed over *)
ForeignConflict ==
    [policy_ids |-> <<"p4", "p5">>, conflict_type |-> "Ambiguous",
     description |-> <<100, "p4", 101, "p5">>, detected_at |-> 0,
     resolution |-> None]

(* resolver.resolve_conflicts(policies, conflicts): lists of up to         *)
(* MaxPolicies policies, with no conflict, with the conflicts detected     *)
(* among them, or with a conflict detected elsewhere                       *)
ResolveConflicts ==
    /\ ~resolving.called
    /\ \E choice \in PolicyListChoices :
           LET policies == PolicyList(choice) IN
           \E conflicts \in {<<>>, <<ForeignConflict>>,
                             PolicyConflictResolver_detect_conflicts(
                                 resolving.strategy, policies, now)} :
               Resolved("resolve_conflicts", policies, conflicts,
                        PolicyConflictResolver_resolve_conflicts(
                            resolving.strategy, policies, conflicts))

(* resolver.merge_policies(policies): two policies of up to two rules      *)
(* each, and lists of up to MaxPolicies policies                           *)
MergePolicies ==
    /\ ~resolving.called
    /\ LET Merge(policies) ==
               Resolved("merge_policies", policies, <<>>,
                        PolicyConflictResolver_merge_policies(
                            resolving.strategy, policies))
       IN
       \/ \E choice1 \in RuleListChoices, choice2 \in RuleListChoices :
              Merge(PolicyPair(RuleList(choice1), RuleList(choice2)))
       \/ \E choice \in PolicyListChoices : Merge(PolicyList(choice))

NextConflicts ==
    \/ DetectConflicts
    \/ ResolveConflicts
    \/ MergePolicies

SpecConflicts == InitConflicts /\ [][NextConflicts]_vars

---------------------------------------------------------------------------
(* Claims about the conflict resolver, checked under SpecConflicts *)

(* Target scopes overlap: Global overlaps anything, an organization, unit, *)
(* role, resource or operation overlaps itself, a Composite overlaps when  *)
(* any member overlaps                                                     *)
RECURSIVE SpecTargetsOverlap(_, _)
SpecTargetsOverlap(target1, target2) ==
    \/ target1.tag = "Global"
    \/ target2.tag = "Global"
    \/ /\ target1.tag = target2.tag
       /\ target1.tag # "Composite"
       /\ target1.v = target2.v
    \/ /\ target1.tag = "Composite"
       /\ \E i \in 1..Len(target1.targets) :
              SpecTargetsOverlap(target1.targets[i], target2)
    \/ /\ target2.tag = "Composite"
       /\ \E i \in 1..Len(target2.targets) :
              SpecTargetsOverlap(target1, target2.targets[i])

(* The pairs (a, b) such that rule a of policy1 conflicts with rule b of   *)
(* policy2, and the first of a set of pairs in rule order                  *)
ConflictingRulePairs(policy1, policy2) ==
    {pair \in (1..Len(policy1.rules)) \X (1..Len(policy2.rules)) :
        PolicyConflictResolver_check_rule_conflict(
            policy1.rules[pair[1]], policy2.rules[pair[2]]) # None}
Precedes(pair1, pair2) ==
    \/ pair1[1] < pair2[1]
    \/ pair1[1] = pair2[1] /\ pair1[2] < pair2[2]
FirstPair(pairs) ==
    CHOOSE pair \in pairs : \A other \in pairs \ {pair} : Precedes(pair, other)

(* The pairs (i, j), i < j, of the policies handed to detect_conflicts     *)
(* whose targets overlap and of which some rules conflict                  *)
PairsInConflict ==
    {pair \in (1..Len(resolving.policies)) \X (1..Len(resolving.policies)) :
        /\ pair[1] < pair[2]
        /\ SpecTargetsOverlap(resolving.policies[pair[1]].target,
                              resolving.policies[pair[2]].target)
        /\ ConflictingRulePairs(resolving.policies[pair[1]],
                                resolving.policies[pair[2]]) # {}}

(* detect_conflicts has returned one conflict for every pair of policies   *)
(* in conflict and none for the others; the conflict of a pair names the   *)
(* two policies and has the type of their first conflicting rule pair      *)
OneConflictPerPair ==
    /\ Len(resolving.result) = Cardinality(PairsInConflict)
    /\ \A pair \in PairsInConflict :
           LET policy1 == resolving.policies[pair[1]]
               policy2 == resolving.policies[pair[2]]
               first == FirstPair(ConflictingRulePairs(policy1, policy2))
               rule1 == policy1.rules[first[1]]
               rule2 == policy2.rules[first[2]]
               conflict ==
                   resolving.result[
                       1 + Cardinality({other \in PairsInConflict :
                                           Precedes(other, pair)})]
           IN
           /\ conflict.policy_ids = <<policy1.id, policy2.id>>
           /\ conflict.conflict_type =
                  PolicyConflictResolver_check_rule_conflict(rule1, rule2)[1]
           /\ conflict.description =
                  <<rule1.name, policy1.name, rule2.name, policy2.name>>

(* Two policies were handed over whose rules are Equal{f, a} and           *)
(* Equal{f, b} with a != b                                                 *)
TwoUnequalEqualities ==
    /\ Len(resolving.policies) = 2
    /\ \A i \in 1..2 :
           /\ Len(resolving.policies[i].rules) = 1
           /\ resolving.policies[i].rules[1].expression.tag = "Equal"
    /\ resolving.policies[1].rules[1].expression.field
           = resolving.policies[2].rules[1].expression.field
    /\ ~Value_eq(resolving.policies[1].rules[1].expression.value,
                 resolving.policies[2].rules[1].expression.value)

ExactlyOneContradiction ==
    /\ Len(resolving.result) = 1
    /\ resolving.result[1].conflict_type = "Contradiction"

SpecComparable(x, y) ==
    \/ x.kind = "Integer" /\ y.kind = "Integer"
    \/ x.kind = "Float" /\ y.kind = "Float" /\ ~x.nan /\ ~y.nan
    \/ x.kind = "String" /\ y.kind = "String"
SpecLess(x, y) ==
    /\ SpecComparable(x, y)
    /\ IF x.kind = "String" THEN String_cmp(x.v, y.v) = "Less" ELSE x.v < y.v
SpecAtLeast(x, y) == SpecComparable(x, y) /\ ~SpecLess(x, y)

(* detect_conflicts was handed two policies with overlapping targets, the  *)
(* first with the one rule GreaterThan{f, x}, the second with one rule of  *)
(* the given kind                                                          *)
GreaterThanAgainst(tag) ==
    /\ resolving.called
    /\ resolving.op = "detect_conflicts"
    /\ Len(resolving.policies) = 2
    /\ SpecTargetsOverlap(resolving.policies[1].target, resolving.policies[2].target)
    /\ \A i \in 1..2 : Len(resolving.policies[i].rules) = 1
    /\ resolving.policies[1].rules[1].expression.tag = "GreaterThan"
    /\ resolving.policies[2].rules[1].expression.tag = tag

(* The rule pair was classified as a conflict of the given type *)
ClassifiedAs(conflict_type) ==
    /\ resolving.result # <<>>
    /\ resolving.result[1].conflict_type = conflict_type

(* C17: a rule pair GreaterThan{f, x} / LessThanOrEqual{f, y} is           *)
(* classified as a Contradiction, and a pair GreaterThan{f, x} /           *)
(* LessThan{f, y} as Impossible, only when x >= y holds under the value    *)
(* ordering.                                                               *)
C17_ClassifiedOnlyWhenAtLeast ==
    LET x == resolving.policies[1].rules[1].expression.value
        y == resolving.policies[2].rules[1].expression.value
    IN
    /\ (GreaterThanAgainst("LessThanOrEqual") /\ ClassifiedAs("Contradiction")) =>
           SpecAtLeast(x, y)
    /\ (GreaterThanAgainst("LessThan") /\ ClassifiedAs("Impossible")) =>
           SpecAtLeast(x, y)

(* C17, revised: such a pair is classified as a Contradiction, or as       *)
(* Impossible, exactly when the two rules name the same field and x < y    *)
(* does not hold under the value ordering: when x >= y, and also when x    *)
(* and y cannot be compared.                                               *)
C17_ClassifiedUnlessLess ==
    LET expr1 == resolving.policies[1].rules[1].expression
        expr2 == resolving.policies[2].rules[1].expression
    IN
    /\ GreaterThanAgainst("LessThanOrEqual") =>
           (ClassifiedAs("Contradiction") <=>
                (expr1.field = expr2.field /\ ~SpecLess(expr1.value, expr2.value)))
    /\ GreaterThanAgainst("LessThan") =>
           (ClassifiedAs("Impossible") <=>
                (expr1.field = expr2.field /\ ~SpecLess(expr1.value, expr2.value)))

(* C17 witness: GreaterThan{f, x} with an integer x against                *)
(* LessThanOrEqual{f, y} with a string y has been classified as a          *)
(* Contradiction                                                           *)
C17_Witness ==
    /\ GreaterThanAgainst("LessThanOrEqual")
    /\ resolving.policies[1].rules[1].expression.value.kind = "Integer"
    /\ resolving.policies[2].rules[1].expression.value.kind = "String"
    /\ ClassifiedAs("Contradiction")

(* C18: with the FailOnConflict strategy, resolve_conflicts returns the    *)
(* IrreconcilableConflict error whenever its conflicts argument is         *)
(* non-empty.                                                              *)
C18_FailOnConflictFails ==
    (/\ resolving.called
     /\ resolving.op = "resolve_conflicts"
     /\ resolving.strategy = "FailOnConflict"
     /\ resolving.conflicts # <<>>) =>
        /\ ~resolving.result.ok
        /\ resolving.result.error.kind = "IrreconcilableConflict"

(* C18, revised: with the FailOnConflict strategy, resolve_conflicts       *)
(* returns the NoPolicies error when policies is empty; otherwise it       *)
(* returns the IrreconcilableConflict error when conflicts is non-empty    *)
(* and the policies unchanged when it is empty.                            *)
C18_FailOnConflictFailsGivenPolicies ==
    (/\ resolving.called
     /\ resolving.op = "resolve_conflicts"
     /\ resolving.strategy = "FailOnConflict") =>
        IF resolving.policies = <<>>
        THEN resolving.result = Err(NoPolicies)
        ELSE IF resolving.conflicts # <<>>
        THEN /\ ~resolving.result.ok
             /\ resolving.result.error.kind = "IrreconcilableConflict"
        ELSE resolving.result = Ok(resolving.policies)

(* C18 witness: under FailOnConflict, policies with a conflict detected    *)
(* among them have been refused as irreconcilable                          *)
C18_Witness ==
    /\ resolving.called
    /\ resolving.op = "resolve_conflicts"
    /\ resolving.strategy = "FailOnConflict"
    /\ Len(resolving.policies) >= 2
    /\ resolving.conflicts # <<>>
    /\ resolving.conflicts =
           PolicyConflictResolver_detect_conflicts(
               resolving.strategy, resolving.policies, resolving.at)
    /\ ~resolving.result.ok
    /\ resolving.result.error.kind = "IrreconcilableConflict"

(* merge_policies was handed two policies, the second with one rule, the   *)
(* incoming rule, that conflicts with exactly one rule of the first, of    *)
(* another severity                                                        *)
MergedOneConflict ==
    /\ resolving.called
    /\ resolving.op = "merge_policies"
    /\ Len(resolving.policies) = 2
    /\ Len(resolving.policies[2].rules) = 1
    /\ LET existing == resolving.policies[1].rules
           incoming == resolving.policies[2].rules[1]
           clashing == {i \in 1..Len(existing) :
                           PolicyConflictResolver_check_rule_conflict(
                               existing[i], incoming) # None}
       IN
       /\ Cardinality(clashing) = 1
       /\ \A i \in clashing : existing[i].severity # incoming.severity

(* The merged policy holds the rules of the first policy, where the rule   *)
(* in conflict with the incoming rule has given way to it if the incoming  *)
(* rule wins: if it is the more severe one under MostRestrictive (most),   *)
(* the less severe one under LeastRestrictive                              *)
MergedKeeps(most) ==
    LET existing == resolving.policies[1].rules
        incoming == resolving.policies[2].rules[1]
        clashing == CHOOSE i \in 1..Len(existing) :
                        PolicyConflictResolver_check_rule_conflict(
                            existing[i], incoming) # None
        merged == resolving.result.value.rules
        incoming_wins ==
            IF most
            THEN Severity_rank(incoming.severity)
                     > Severity_rank(existing[clashing].severity)
            ELSE Severity_rank(incoming.severity)
                     < Severity_rank(existing[clashing].severity)
        kept == IF incoming_wins
                THEN ({existing[i].id : i \in 1..Len(existing)}
                          \ {existing[clashing].id}) \cup {incoming.id}
                ELSE {existing[i].id : i \in 1..Len(existing)}
    IN
    /\ resolving.result.ok
    /\ {merged[i].id : i \in 1..Len(merged)} = kept

(* C19: in merge_policies under MostRestrictive (LeastRestrictive), when   *)
(* an incoming rule conflicts with a rule already in the merged policy,    *)
(* the merged policy ends up containing only the one of the two            *)
(* conflicting rules with the higher (lower) severity; the other is        *)
(* dropped or replaced.                                                    *)
C19_MergeKeepsOneOfConflictingRules ==
    /\ (MergedOneConflict /\ resolving.strategy = "MostRestrictive") =>
           MergedKeeps(TRUE)
    /\ (MergedOneConflict /\ resolving.strategy = "LeastRestrictive") =>
           MergedKeeps(FALSE)

---------------------------------------------------------------------------
(* sagas/: the four workflow sagas.  A saga is a record of the fields of   *)
(* its struct; metadata (ids, timestamps, version) is read by no           *)
(* transition and is left out, and the Markov chain, which new() fills     *)
(* once and nothing changes afterwards, is the edge set of the saga type.  *)

(* sagas/approval_saga.rs and sagas/exemption_saga.rs: ApprovalLevel *)
ApprovalLevel == {"Manager", "Director", "Security", "Compliance"}

(* sagas/exemption_saga.rs: RiskLevel *)
RiskLevel == {"Low", "Medium", "High", "Critical"}

(* sagas/mod.rs: SagaError::InvalidTransition(from, to) *)
InvalidTransition(from, to) ==
    [tag |-> "InvalidTransition", from |-> from, to |-> to]

(* PolicyApprovalSaga::new: the edges given a non-zero probability *)
PolicyApprovalSaga_markov_chain ==
    {<<"Draft", "UnderReview">>, <<"UnderReview", "Approved">>,
     <<"UnderReview", "Rejected">>, <<"UnderReview", "Draft">>,
     <<"Approved", "Active">>, <<"Approved", "Failed">>}

(* PolicyEnforcementSaga::new: the edges given a non-zero probability *)
PolicyEnforcementSaga_markov_chain ==
    {<<"Initiated", "Evaluating">>, <<"Evaluating", "Enforcing">>,
     <<"Evaluating", "Failed">>, <<"Enforcing", "Allowed">>,
     <<"Enforcing", "Blocked">>, <<"Enforcing", "Remediation">>}

(* ExemptionWorkflowSaga::new: the edges given a non-zero probability *)
ExemptionWorkflowSaga_markov_chain ==
    {<<"ExemptionRequested", "ExemptionUnderReview">>,
     <<"ExemptionRequested", "ExemptionDenied">>,
     <<"ExemptionUnderReview", "ExemptionGranted">>,
     <<"ExemptionUnderReview", "ExemptionDenied">>,
     <<"ExemptionUnderReview", "ExemptionRequested">>,
     <<"ExemptionGranted", "ExemptionExpired">>}

(* ComplianceAuditSaga::new: the edges given a non-zero probability *)
ComplianceAuditSaga_markov_chain ==
    {<<"AuditScheduled", "AuditInProgress">>, <<"AuditScheduled", "Cancelled">>,
     <<"AuditInProgress", "AuditComplete">>, <<"AuditInProgress", "Failed">>,
     <<"AuditComplete", "ComplianceVerified">>,
     <<"AuditComplete", "NonCompliant">>}

(* The call a saga record was last changed by *)
Constructed == [op |-> "new"]

PolicyApprovalSaga_new(policy_id) ==
    [saga_type |-> "PolicyApprovalSaga", policy_id |-> policy_id,
     current_state |-> "Draft", approvals |-> <<>>,
     rejection_reason |-> None, last |-> Constructed]

PolicyEnforcementSaga_new(policy_ids, composition) ==
    [saga_type |-> "PolicyEnforcementSaga", policy_ids |-> policy_ids,
     current_state |-> "Initiated", evaluation_results |-> <<>>,
     enforcement_decision |-> None, composition_rule |-> composition,
     last |-> Constructed]

ExemptionWorkflowSaga_new(policy_id) ==
    [saga_type |-> "ExemptionWorkflowSaga", policy_id |-> policy_id,
     current_state |-> "ExemptionRequested", risk_assessment |-> None,
     business_justification |-> None, approvals |-> <<>>,
     exemption_conditions |-> <<>>, exemption_id |-> None, expiry |-> None,
     last |-> Constructed]

ComplianceAuditSaga_new(policy_ids) ==
    [saga_type |-> "ComplianceAuditSaga", policy_ids |-> policy_ids,
     current_state |-> "AuditScheduled", audit_results |-> <<>>,
     findings |-> <<>>, overall_compliance |-> None, last |-> Constructed]

(* HashMap::insert on a map kept as a function over the keys present; the  *)
(* empty map is the function over the empty set, <<>>                      *)
HashMap_insert(map, key, value) ==
    [k \in (DOMAIN map) \cup {key} |-> IF k = key THEN value ELSE map[k]]

(* HashMap::len *)
HashMap_len(map) == Cardinality(DOMAIN map)

(* map.values().filter(|r| r.is_compliant()).count() *)
CountCompliantValues(map) ==
    Cardinality({k \in DOMAIN map : ComplianceResult_is_compliant(map[k])})

(* PolicyApprovalSaga::add_approval *)
PolicyApprovalSaga_add_approval(s, approver, level) ==
    [s EXCEPT !.approvals = Append(@, <<approver, level>>)]

(* PolicyApprovalSaga::has_sufficient_approvals *)
PolicyApprovalSaga_has_sufficient_approvals(s) ==
    /\ \E i \in 1..Len(s.approvals) : s.approvals[i][2] = "Manager"
    /\ \E i \in 1..Len(s.approvals) : s.approvals[i][2] = "Director"

(* PolicyApprovalSaga::reject *)
PolicyApprovalSaga_reject(s, reason) ==
    [s EXCEPT !.rejection_reason = Some(reason), !.current_state = "Rejected"]

(* PolicyApprovalSaga::apply_event: the saga after the call and its result *)
PolicyApprovalSaga_apply_event(s, event) ==
    CASE event.type = "PolicyCreated" ->
           IF s.current_state # "Draft"
           THEN [saga |-> s,
                 result |-> Err(InvalidTransition(s.current_state, "UnderReview"))]
           ELSE [saga |-> [s EXCEPT !.current_state = "UnderReview"],
                 result |-> Ok(<<>>)]
      [] event.type = "PolicyApproved" /\ event.policy_id = s.policy_id ->
           IF s.current_state # "UnderReview"
           THEN [saga |-> s,
                 result |-> Err(InvalidTransition(s.current_state, "Approved"))]
           ELSE [saga |-> [s EXCEPT !.current_state = "Approved"],
                 result |-> Ok(<<>>)]
      [] event.type = "PolicyActivated" /\ event.policy_id = s.policy_id ->
           IF s.current_state # "Approved"
           THEN [saga |-> s,
                 result |-> Err(InvalidTransition(s.current_state, "Active"))]
           ELSE [saga |-> [s EXCEPT !.current_state = "Active"],
                 result |-> Ok(<<>>)]
      [] OTHER -> [saga |-> s, result |-> Ok(<<>>)]

(* PolicyEnforcementSaga::make_enforcement_decision *)
PolicyEnforcementSaga_make_enforcement_decision(s) ==
    LET compliant_count == CountCompliantValues(s.evaluation_results)
        total == HashMap_len(s.evaluation_results)
        rule == s.composition_rule
        decision ==
            CASE rule.tag = "All" ->
                   IF compliant_count = total THEN "Allow" ELSE "Block"
              [] rule.tag = "Any" ->
                   IF compliant_count > 0 THEN "Allow" ELSE "Block"
              [] rule.tag = "Majority" ->
                   IF compliant_count > total \div 2
                   THEN "AllowWithWarning" ELSE "Block"
              [] rule.tag = "AtLeast" ->
                   IF compliant_count >= rule.n THEN "Allow" ELSE "Block"
    IN  [s EXCEPT !.enforcement_decision = Some(decision),
                  !.current_state =
                      CASE decision \in {"Allow", "AllowWithWarning"} -> "Allowed"
                        [] decision \in {"Block", "Quarantine"} -> "Blocked"
                        [] OTHER -> "Enforcing"]

(* PolicyEnforcementSaga::add_evaluation_result *)
PolicyEnforcementSaga_add_evaluation_result(s, policy_id, result) ==
    LET added == [s EXCEPT !.evaluation_results =
                               HashMap_insert(@, policy_id, result)]
    IN  IF HashMap_len(added.evaluation_results) = Len(added.policy_ids)
        THEN PolicyEnforcementSaga_make_enforcement_decision(added)
        ELSE added

(* PolicyEnforcementSaga::apply_event: the saga after the call and its result *)
PolicyEnforcementSaga_apply_event(s, event) ==
    CASE event.type = "PolicyEvaluated" ->
           IF Contains(s.policy_ids, event.policy_id)
           THEN LET added == PolicyEnforcementSaga_add_evaluation_result(
                                 s, event.policy_id, event.result)
                IN  [saga |-> IF added.current_state = "Initiated"
                              THEN [added EXCEPT !.current_state = "Evaluating"]
                              ELSE added,
                     result |-> Ok(<<>>)]
           ELSE [saga |-> s, result |-> Ok(<<>>)]
      [] event.type = "PolicyViolationDetected" ->
           IF Contains(s.policy_ids, event.policy_id)
           THEN [saga |-> PolicyEnforcementSaga_add_evaluation_result(
                              s, event.policy_id, NonCompliant(event.violations)),
                 result |-> Ok(<<>>)]
           ELSE [saga |-> s, result |-> Ok(<<>>)]
      [] event.type = "PolicyCompliancePassed" ->
           IF Contains(s.policy_ids, event.policy_id)
           THEN [saga |-> PolicyEnforcementSaga_add_evaluation_result(
                              s, event.policy_id, Compliant),
                 result |-> Ok(<<>>)]
           ELSE [saga |-> s, result |-> Ok(<<>>)]
      [] OTHER -> [saga |-> s, result |-> Ok(<<>>)]

(* ExemptionWorkflowSaga::set_risk_assessment *)
ExemptionWorkflowSaga_set_risk_assessment(s, level, notes) ==
    [s EXCEPT !.risk_assessment = Some(<<level, notes>>)]

(* ExemptionWorkflowSaga::set_business_justification *)
ExemptionWorkflowSaga_set_business_justification(s, justification, priority) ==
    [s EXCEPT !.business_justification = Some(<<justification, priority>>)]

(* ExemptionWorkflowSaga::add_approval *)
ExemptionWorkflowSaga_add_approval(s, approver, level) ==
    [s EXCEPT !.approvals = Append(@, <<approver, level>>)]

(* ExemptionWorkflowSaga::has_sufficient_approvals *)
ExemptionWorkflowSaga_has_sufficient_approvals(s) ==
    LET required_approvals ==
            CASE s.risk_assessment # None /\ s.risk_assessment[1][1] = "Critical" -> 4
              [] s.risk_assessment # None /\ s.risk_assessment[1][1] = "High" -> 3
              [] s.risk_assessment # None /\ s.risk_assessment[1][1] = "Medium" -> 2
              [] OTHER -> 1
    IN  Len(s.approvals) >= required_approvals

(* ExemptionWorkflowSaga::grant_exemption at time t; exemption_id is the   *)
(* fresh ExemptionId::new()                                                *)
ExemptionWorkflowSaga_grant_exemption(s, conditions, duration, exemption_id, t) ==
    [s EXCEPT !.exemption_conditions = conditions,
              !.exemption_id = Some(exemption_id),
              !.expiry = Some(t + duration),
              !.current_state = "ExemptionGranted"]

(* ExemptionWorkflowSaga::check_expiry at time t *)
ExemptionWorkflowSaga_check_expiry(s, t) ==
    IF s.expiry # None /\ t > s.expiry[1]
    THEN [s EXCEPT !.current_state = "ExemptionExpired"]
    ELSE s

(* ExemptionWorkflowSaga::apply_event: the saga after the call and its result *)
ExemptionWorkflowSaga_apply_event(s, event) ==
    CASE event.type = "PolicyExemptionGranted" /\ event.policy_id = s.policy_id ->
           [saga |-> [s EXCEPT !.exemption_id = Some(event.exemption_id),
                               !.current_state = "ExemptionGranted",
                               !.expiry = Some(event.valid_until)],
            result |-> Ok(<<>>)]
      [] event.type = "PolicyExemptionRevoked" ->
           [saga |-> IF Some(event.exemption_id) = s.exemption_id
                     THEN [s EXCEPT !.current_state = "ExemptionDenied"]
                     ELSE s,
            result |-> Ok(<<>>)]
      [] event.type = "PolicyExemptionExpired" ->
           [saga |-> IF Some(event.exemption_id) = s.exemption_id
                     THEN [s EXCEPT !.current_state = "ExemptionExpired"]
                     ELSE s,
            result |-> Ok(<<>>)]
      [] OTHER -> [saga |-> s, result |-> Ok(<<>>)]

(* sagas/audit_saga.rs: the AuditFinding add_audit_result makes of a violation *)
AuditFinding(policy_id, violation) ==
    [policy_id |-> policy_id,
     finding_type |-> IF Severity_rank(violation.severity) >= Severity_rank("High")
                      THEN "Violation" ELSE "Weakness",
     severity |-> violation.severity,
     description |-> violation.details,
     evidence |-> <<violation.rule_description>>,
     remediation_required |->
         Severity_rank(violation.severity) >= Severity_rank("Medium")]

(* ComplianceAuditSaga::determine_compliance_status *)
ComplianceAuditSaga_determine_compliance_status(s) ==
    LET total == HashMap_len(s.audit_results)
        compliant == CountCompliantValues(s.audit_results)
        critical_findings ==
            Cardinality({i \in 1..Len(s.findings) :
                             s.findings[i].severity = "Critical"})
        status ==
            IF critical_findings > 0 THEN "CriticalNonCompliance"
            ELSE IF compliant = total THEN "FullyCompliant"
            ELSE IF compliant > total \div 2 THEN "PartiallyCompliant"
            ELSE "NonCompliant"
    IN  [s EXCEPT !.overall_compliance = Some(status),
                  !.current_state = IF status = "FullyCompliant"
                                    THEN "ComplianceVerified"
                                    ELSE "NonCompliant"]

(* ComplianceAuditSaga::add_audit_result *)
ComplianceAuditSaga_add_audit_result(s, policy_id, result) ==
    LET found ==
            IF result.tag = "NonCompliant"
            THEN [i \in 1..Len(result.violations) |->
                      AuditFinding(policy_id, result.violations[i])]
            ELSE <<>>
        added == [s EXCEPT !.audit_results = HashMap_insert(@, policy_id, result),
                           !.findings = @ \o found]
    IN  IF HashMap_len(added.audit_results) = Len(added.policy_ids)
        THEN ComplianceAuditSaga_determine_compliance_status(added)
        ELSE added

(* ComplianceAuditSaga::apply_event: the saga after the call and its result *)
ComplianceAuditSaga_apply_event(s, event) ==
    CASE event.type = "PolicyEvaluated"
             /\ Contains(s.policy_ids, event.policy_id) ->
           LET added == ComplianceAuditSaga_add_audit_result(
                            s, event.policy_id, event.result)
           IN  [saga |-> IF added.current_state = "AuditScheduled"
                         THEN [added EXCEPT !.current_state = "AuditInProgress"]
                         ELSE added,
                result |-> Ok(<<>>)]
      [] event.type = "PolicyViolationDetected"
             /\ Contains(s.policy_ids, event.policy_id) ->
           [saga |-> ComplianceAuditSaga_add_audit_result(
                         s, event.policy_id, NonCompliant(event.violations)),
            result |-> Ok(<<>>)]
      [] event.type = "PolicyCompliancePassed"
             /\ Contains(s.policy_ids, event.policy_id) ->
           [saga |-> ComplianceAuditSaga_add_audit_result(
                         s, event.policy_id, Compliant),
            result |-> Ok(<<>>)]
      [] OTHER -> [saga |-> s, result |-> Ok(<<>>)]

(* PolicySaga::apply_event, dispatched on the saga type *)
PolicySaga_apply_event(s, event) ==
    CASE s.saga_type = "PolicyApprovalSaga" ->
           PolicyApprovalSaga_apply_event(s, event)
      [] s.saga_type = "PolicyEnforcementSaga" ->
           PolicyEnforcementSaga_apply_event(s, event)
      [] s.saga_type = "ExemptionWorkflowSaga" ->
           ExemptionWorkflowSaga_apply_event(s, event)
      [] s.saga_type = "ComplianceAuditSaga" ->
           ComplianceAuditSaga_apply_event(s, event)

(* get_commands: a command is a record of its variant and of the payload   *)
(* fields filled from the saga; identity, requester, free texts and        *)
(* timestamps are left out                                                 *)

(* PolicyApprovalSaga::get_commands *)
PolicyApprovalSaga_get_commands(s) ==
    CASE s.current_state = "UnderReview"
             /\ PolicyApprovalSaga_has_sufficient_approvals(s) ->
           <<[type |-> "ApprovePolicy", policy_id |-> s.policy_id]>>
      [] s.current_state = "Approved" ->
           <<[type |-> "ActivatePolicy", policy_id |-> s.policy_id]>>
      [] OTHER -> <<>>

(* for policy_id in &self.policy_ids: an EvaluatePolicy command for every  *)
(* policy that has no result yet                                           *)
RECURSIVE EvaluateCommands(_, _)
EvaluateCommands(policy_ids, results) ==
    IF policy_ids = <<>> THEN <<>>
    ELSE (IF Head(policy_ids) \notin DOMAIN results
          THEN <<[type |-> "EvaluatePolicy", policy_id |-> Head(policy_ids)]>>
          ELSE <<>>)
         \o EvaluateCommands(Tail(policy_ids), results)

(* PolicyEnforcementSaga::get_commands *)
PolicyEnforcementSaga_get_commands(s) ==
    CASE s.current_state \in {"Initiated", "Evaluating"} ->
           EvaluateCommands(s.policy_ids, s.evaluation_results)
      [] s.current_state = "Enforcing" ->
           IF s.enforcement_decision # None /\ s.policy_ids # <<>>
           THEN <<[type |-> "EnforcePolicy", policy_id |-> Head(s.policy_ids),
                   enforcement_action |-> s.enforcement_decision[1]]>>
           ELSE <<>>
      [] OTHER -> <<>>

(* ExemptionWorkflowSaga::ready_for_approval *)
ExemptionWorkflowSaga_ready_for_approval(s) ==
    s.risk_assessment # None /\ s.business_justification # None

(* A variant of get_commands that grants as soon as the request is ready   *)
(* for approval, whatever the approvals                                    *)
ExemptionWorkflowSaga_get_commands_GrantWhenReady(s) ==
    IF ExemptionWorkflowSaga_ready_for_approval(s)
    THEN <<[type |-> "GrantExemption", policy_id |-> s.policy_id,
            approver |-> "", risk_acceptance |-> None,
            conditions |-> s.exemption_conditions]>>
    ELSE <<>>

(* ExemptionWorkflowSaga::get_commands *)
ExemptionWorkflowSaga_get_commands(s) ==
    CASE s.current_state = "ExemptionRequested"
             /\ ExemptionWorkflowSaga_ready_for_approval(s) ->
           <<[type |-> "RequestExemption", policy_id |-> s.policy_id]>>
      [] s.current_state = "ExemptionUnderReview"
             /\ ExemptionWorkflowSaga_has_sufficient_approvals(s) ->
           <<[type |-> "GrantExemption", policy_id |-> s.policy_id,
              approver |-> IF s.approvals # <<>>
                           THEN s.approvals[Len(s.approvals)][1] ELSE "",
              risk_acceptance |-> IF s.risk_assessment # None
                                  THEN Some(s.risk_assessment[1][1]) ELSE None,
              conditions |-> s.exemption_conditions]>>
      [] OTHER -> <<>>

(* for finding in &self.findings: a SuspendPolicy command for every        *)
(* finding of Critical severity that requires remediation                  *)
RECURSIVE SuspendCommands(_)
SuspendCommands(findings) ==
    IF findings = <<>> THEN <<>>
    ELSE (IF /\ Severity_rank(Head(findings).severity) >= Severity_rank("High")
             /\ Head(findings).remediation_required
             /\ Head(findings).severity = "Critical"
          THEN <<[type |-> "SuspendPolicy", policy_id |-> Head(findings).policy_id]>>
          ELSE <<>>)
         \o SuspendCommands(Tail(findings))

(* ComplianceAuditSaga::get_commands *)
ComplianceAuditSaga_get_commands(s) ==
    CASE s.current_state \in {"AuditScheduled", "AuditInProgress"} ->
           EvaluateCommands(s.policy_ids, s.audit_results)
      [] s.current_state = "NonCompliant" -> SuspendCommands(s.findings)
      [] OTHER -> <<>>

(* PolicySaga::get_commands, dispatched on the saga type *)
PolicySaga_get_commands(s) ==
    CASE s.saga_type = "PolicyApprovalSaga" -> PolicyApprovalSaga_get_commands(s)
      [] s.saga_type = "PolicyEnforcementSaga" -> PolicyEnforcementSaga_get_commands(s)
      [] s.saga_type = "ExemptionWorkflowSaga" -> ExemptionWorkflowSaga_get_commands(s)
      [] s.saga_type = "ComplianceAuditSaga" -> ComplianceAuditSaga_get_commands(s)

(* A variant of is_complete where a Blocked enforcement saga and a         *)
(* NonCompliant audit saga are still open                                  *)
PolicySaga_is_complete_BlockedIsOpen(s) ==
    CASE s.saga_type = "PolicyApprovalSaga" ->
           s.current_state \in {"Active", "Rejected"}
      [] s.saga_type = "PolicyEnforcementSaga" ->
           s.current_state \in {"Allowed", "Completed"}
      [] s.saga_type = "ExemptionWorkflowSaga" ->
           s.current_state \in
               {"ExemptionGranted", "ExemptionDenied", "ExemptionExpired"}
      [] s.saga_type = "ComplianceAuditSaga" ->
           s.current_state \in {"ComplianceVerified", "Cancelled"}

(* PolicySaga::is_complete of each saga type *)
PolicySaga_is_complete(s) ==
    CASE s.saga_type = "PolicyApprovalSaga" ->
           s.current_state \in {"Active", "Rejected"}
      [] s.saga_type = "PolicyEnforcementSaga" ->
           s.current_state \in {"Allowed", "Blocked", "Completed"}
      [] s.saga_type = "ExemptionWorkflowSaga" ->
           s.current_state \in
               {"ExemptionGranted", "ExemptionDenied", "ExemptionExpired"}
      [] s.saga_type = "ComplianceAuditSaga" ->
           s.current_state \in {"ComplianceVerified", "NonCompliant", "Cancelled"}

(* PolicySaga::has_failed of each saga type *)
PolicySaga_has_failed(s) ==
    CASE s.saga_type = "PolicyApprovalSaga" ->
           s.current_state \in {"Failed", "Rejected"}
      [] s.saga_type = "PolicyEnforcementSaga" -> s.current_state = "Failed"
      [] s.saga_type = "ExemptionWorkflowSaga" ->
           s.current_state = "ExemptionDenied"
      [] s.saga_type = "ComplianceAuditSaga" -> s.current_state = "Failed"

---------------------------------------------------------------------------
(* SpecSagas: one saga of any of the four types, driven through its        *)
(* public methods and apply_event                                          *)

(* The violations an event or result carries: one below High, one Critical *)
SagaViolation(severity) ==
    [rule_id |-> "r1", rule_description |-> "rule", severity |-> severity,
     details |-> "details", suggested_remediation |-> None]

SagaViolationLists ==
    {<<SagaViolation("Low")>>, <<SagaViolation("Critical")>>}

SagaResults ==
    {Compliant} \cup {NonCompliant(violations) : violations \in SagaViolationLists}

(* events.rs: PolicyEvent, with the payload fields the sagas read.  A saga  *)
(* is handed the events some arm of its apply_event names, for either      *)
(* policy, and PolicySuspended, which no saga names.                       *)
EvIgnored == [type : {"PolicySuspended"}, policy_id : {"p1"}]

ApprovalEvents ==
    [type : {"PolicyCreated", "PolicyApproved", "PolicyActivated"},
     policy_id : PolicyIds]
    \cup EvIgnored

EvaluationEvents ==
    [type : {"PolicyEvaluated"}, policy_id : PolicyIds, result : SagaResults]
    \cup [type : {"PolicyViolationDetected"}, policy_id : PolicyIds,
          violations : SagaViolationLists]
    \cup [type : {"PolicyCompliancePassed"}, policy_id : PolicyIds]
    \cup EvIgnored

ExemptionEvents ==
    [type : {"PolicyExemptionGranted"}, policy_id : PolicyIds,
     exemption_id : ExemptionIds, valid_until : Times]
    \cup [type : {"PolicyExemptionRevoked", "PolicyExemptionExpired"},
          policy_id : {"p1"}, exemption_id : ExemptionIds]
    \cup EvIgnored

SagaEvents(s) ==
    CASE s.saga_type = "PolicyApprovalSaga" -> ApprovalEvents
      [] s.saga_type = "ExemptionWorkflowSaga" -> ExemptionEvents
      [] OTHER -> EvaluationEvents

(* The policies an enforcement or audit saga is created for: policy_ids is *)
(* a Vec<PolicyId>, so a list may name a policy twice                      *)
SagaPolicyLists == {<<"p1">>, <<"p1", "p2">>, <<"p1", "p1">>}

(* The composition rules an enforcement saga is created with *)
SagaCompositionRules ==
    {CompositionRule_All, CompositionRule_Any, CompositionRule_Majority,
     CompositionRule_AtLeast(1)}

InitSagas ==
    /\ focus = "Policy"
    /\ policy = Policy_new("p1", "new", "new", 0)
    /\ policySet = PolicySet_new("s1", "new", "new", 0)
    /\ exemption = PolicyExemption_new("e1", "p1", "new", "new", "admin", MaxTime, 0)
    /\ ret = [op |-> "new", arg |-> "", ok |-> TRUE]
    /\ store = <<>>
    /\ loaded = NotLoaded
    /\ now = 0
    /\ registered = [p \in PolicyIds |-> <<>>]
    /\ evaluated = NotEvaluated
    /\ resolving = NotResolving
    /\ \/ saga = PolicyApprovalSaga_new("p1")
       \/ \E policy_ids \in SagaPolicyLists, composition \in SagaCompositionRules :
              saga = PolicyEnforcementSaga_new(policy_ids, composition)
       \/ saga = ExemptionWorkflowSaga_new("p1")
       \/ \E policy_ids \in SagaPolicyLists :
              saga = ComplianceAuditSaga_new(policy_ids)

(* The call op of the saga returns, leaving it as s *)
SagaCalled(op, s) ==
    /\ saga' = [s EXCEPT !.last = [op |-> op, before |-> saga.current_state]]
    /\ UNCHANGED <<aggregateVars, ret, repositoryVars, now, evaluatorVars,
                   resolving>>

(* saga.apply_event(&event) *)
SagaApplyEvent ==
    \E event \in SagaEvents(saga) :
        LET applied == PolicySaga_apply_event(saga, event)
        IN  /\ saga.saga_type = "ComplianceAuditSaga" =>
                   Len(applied.saga.findings) <= MaxFindings
            /\ saga' = [applied.saga EXCEPT
                            !.last = [op |-> "apply_event",
                                      before |-> saga.current_state,
                                      event |-> event,
                                      result |-> applied.result]]
            /\ UNCHANGED <<aggregateVars, ret, repositoryVars, now,
                           evaluatorVars, resolving>>

(* The levels approvals are added at: an approval saga reads the level,    *)
(* an exemption saga counts the approvals                                  *)
SagaApprovalLevels(s) ==
    IF s.saga_type = "PolicyApprovalSaga"
    THEN {"Manager", "Director", "Security"}
    ELSE {"Manager"}

(* saga.add_approval(approver, level) *)
SagaAddApproval ==
    /\ saga.saga_type \in {"PolicyApprovalSaga", "ExemptionWorkflowSaga"}
    /\ Len(saga.approvals) < MaxApprovals
    /\ \E approver \in Users, level \in SagaApprovalLevels(saga) :
           \/ /\ saga.saga_type = "PolicyApprovalSaga"
              /\ SagaCalled("add_approval",
                            PolicyApprovalSaga_add_approval(saga, approver, level))
           \/ /\ saga.saga_type = "ExemptionWorkflowSaga"
              /\ SagaCalled("add_approval",
                            ExemptionWorkflowSaga_add_approval(saga, approver, level))

(* saga.reject(reason) *)
SagaReject ==
    /\ saga.saga_type = "PolicyApprovalSaga"
    /\ SagaCalled("reject", PolicyApprovalSaga_reject(saga, "reason"))

(* saga.set_risk_assessment(level, notes) *)
SagaSetRiskAssessment ==
    /\ saga.saga_type = "ExemptionWorkflowSaga"
    /\ \E level \in RiskLevel :
           SagaCalled("set_risk_assessment",
                      ExemptionWorkflowSaga_set_risk_assessment(saga, level, "notes"))

(* saga.set_business_justification(justification, priority) *)
SagaSetBusinessJustification ==
    /\ saga.saga_type = "ExemptionWorkflowSaga"
    /\ SagaCalled("set_business_justification",
                  ExemptionWorkflowSaga_set_business_justification(
                      saga, "justification", "High"))

(* saga.grant_exemption(conditions, duration) *)
SagaGrantExemption ==
    /\ saga.saga_type = "ExemptionWorkflowSaga"
    /\ \E duration \in {0}, exemption_id \in ExemptionIds :
           SagaCalled("grant_exemption",
                      ExemptionWorkflowSaga_grant_exemption(
                          saga, <<>>, duration, exemption_id, now))

(* saga.check_expiry() *)
SagaCheckExpiry ==
    /\ saga.saga_type = "ExemptionWorkflowSaga"
    /\ SagaCalled("check_expiry", ExemptionWorkflowSaga_check_expiry(saga, now))

(* saga.add_evaluation_result(policy_id, result) *)
SagaAddEvaluationResult ==
    /\ saga.saga_type = "PolicyEnforcementSaga"
    /\ \E policy_id \in PolicyIds, result \in SagaResults :
           SagaCalled("add_evaluation_result",
                      PolicyEnforcementSaga_add_evaluation_result(
                          saga, policy_id, result))

(* saga.add_audit_result(policy_id, result) *)
SagaAddAuditResult ==
    /\ saga.saga_type = "ComplianceAuditSaga"
    /\ \E policy_id \in PolicyIds, result \in SagaResults :
           LET added == ComplianceAuditSaga_add_audit_result(saga, policy_id, result)
           IN  /\ Len(added.findings) <= MaxFindings
               /\ SagaCalled("add_audit_result", added)

(* saga.get_commands() *)
SagaGetCommands ==
    /\ saga' = [saga EXCEPT
                    !.last = [op |-> "get_commands", before |-> saga.current_state,
                              commands |-> PolicySaga_get_commands(saga)]]
    /\ UNCHANGED <<aggregateVars, ret, repositoryVars, now, evaluatorVars,
                   resolving>>

NextSagas ==
    \/ SagaApplyEvent
    \/ SagaGetCommands
    \/ SagaAddApproval
    \/ SagaReject
    \/ SagaSetRiskAssessment
    \/ SagaSetBusinessJustification
    \/ SagaGrantExemption
    \/ SagaCheckExpiry
    \/ SagaAddEvaluationResult
    \/ SagaAddAuditResult
    \/ Tick

SpecSagas == InitSagas /\ [][NextSagas]_vars

---------------------------------------------------------------------------
(* Claims about the sagas, checked under SpecSagas *)

(* The transition table of the saga's type *)
SagaMarkovChain(s) ==
    CASE s.saga_type = "PolicyApprovalSaga" -> PolicyApprovalSaga_markov_chain
      [] s.saga_type = "PolicyEnforcementSaga" -> PolicyEnforcementSaga_markov_chain
      [] s.saga_type = "ExemptionWorkflowSaga" -> ExemptionWorkflowSaga_markov_chain
      [] s.saga_type = "ComplianceAuditSaga" -> ComplianceAuditSaga_markov_chain

(* The state the arm of apply_event that takes the event assigns to        *)
(* current_state, None for an event the saga ignores or only records       *)
AdvancesTo(s, event) ==
    CASE s.saga_type = "PolicyApprovalSaga" ->
           CASE event.type = "PolicyCreated" -> Some("UnderReview")
             [] event.type = "PolicyApproved" /\ event.policy_id = s.policy_id ->
                  Some("Approved")
             [] event.type = "PolicyActivated" /\ event.policy_id = s.policy_id ->
                  Some("Active")
             [] OTHER -> None
      [] s.saga_type = "PolicyEnforcementSaga" ->
           IF event.type = "PolicyEvaluated" /\ Contains(s.policy_ids, event.policy_id)
           THEN Some("Evaluating") ELSE None
      [] s.saga_type = "ExemptionWorkflowSaga" ->
           CASE event.type = "PolicyExemptionGranted"
                    /\ event.policy_id = s.policy_id -> Some("ExemptionGranted")
             [] event.type = "PolicyExemptionRevoked"
                    /\ Some(event.exemption_id) = s.exemption_id ->
                  Some("ExemptionDenied")
             [] event.type = "PolicyExemptionExpired"
                    /\ Some(event.exemption_id) = s.exemption_id ->
                  Some("ExemptionExpired")
             [] OTHER -> None
      [] s.saga_type = "ComplianceAuditSaga" ->
           IF event.type = "PolicyEvaluated" /\ Contains(s.policy_ids, event.policy_id)
           THEN Some("AuditInProgress") ELSE None

(* The states the saga's transition table lets it enter the state from *)
RequiredSourceStates(s, to) ==
    {edge[1] : edge \in {e \in SagaMarkovChain(s) : e[2] = to}}

(* The last call applied an event that advances the saga, outside the      *)
(* states the event may be applied in                                     *)
AppliedOutsideSource ==
    /\ saga.last.op = "apply_event"
    /\ AdvancesTo(saga, saga.last.event) # None
    /\ saga.last.before
           \notin RequiredSourceStates(saga, AdvancesTo(saga, saga.last.event)[1])

(* C20: for every saga type, apply_event of a state-advancing event while  *)
(* the saga is not in the source state the event requires returns          *)
(* InvalidTransition and leaves current_state as it was                    *)
C20_WrongSourceIsInvalidTransition ==
    AppliedOutsideSource =>
        /\ ~saga.last.result.ok
        /\ saga.last.result.error.tag = "InvalidTransition"
        /\ saga.current_state = saga.last.before

(* C21: a saga's current_state changes only inside apply_event: after a    *)
(* call of any other public method of the four sagas current_state is      *)
(* what it was before the call                                             *)
C21_StateChangesOnlyInApplyEvent ==
    saga.last.op \notin {"new", "apply_event"} =>
        saga.current_state = saga.last.before

(* C22: every change of current_state from s to s' made while applying an  *)
(* event is an edge (s, s') the saga's transition table gives a non-zero   *)
(* probability                                                             *)
C22_AppliedChangesAreAllowedTransitions ==
    (saga.last.op = "apply_event" /\ saga.current_state # saga.last.before) =>
        <<saga.last.before, saga.current_state>> \in SagaMarkovChain(saga)

(* C23: a PolicyApprovalSaga moves from UnderReview to Approved only when  *)
(* both a Manager-level and a Director-level approval are recorded on it   *)
C23_ApprovedOnlyWithManagerAndDirector ==
    (/\ saga.saga_type = "PolicyApprovalSaga"
     /\ saga.last.op # "new"
     /\ saga.last.before = "UnderReview"
     /\ saga.current_state = "Approved") =>
        PolicyApprovalSaga_has_sufficient_approvals(saga)

(* The commands hold one of the variant *)
HasCommand(commands, type) ==
    \E i \in 1..Len(commands) : commands[i].type = type

(* C24: in every reachable state of an ExemptionWorkflowSaga,              *)
(* get_commands() holds a GrantExemption command only if                   *)
(* has_sufficient_approvals() is true: while the approvals are too few for *)
(* the assessed risk level, get_commands() returns no GrantExemption       *)
C24_GrantCommandOnlyWithSufficientApprovals ==
    (/\ saga.saga_type = "ExemptionWorkflowSaga"
     /\ ~ExemptionWorkflowSaga_has_sufficient_approvals(saga)) =>
        /\ ~HasCommand(ExemptionWorkflowSaga_get_commands(saga), "GrantExemption")
        /\ saga.last.op = "get_commands" =>
               ~HasCommand(saga.last.commands, "GrantExemption")

(* get_commands() returned while one approval of the two a Medium risk     *)
(* needs was recorded                                                      *)
C24_Witness ==
    /\ saga.saga_type = "ExemptionWorkflowSaga"
    /\ saga.last.op = "get_commands"
    /\ saga.risk_assessment = Some(<<"Medium", "notes">>)
    /\ Len(saga.approvals) = 1
    /\ ~ExemptionWorkflowSaga_has_sufficient_approvals(saga)
    /\ saga.last.commands = ExemptionWorkflowSaga_get_commands(saga)

(* The approvals the risk level asks for: Critical 4, High 3, Medium 2,    *)
(* Low or no assessment 1                                                  *)
SpecRequiredApprovals(risk_assessment) ==
    IF risk_assessment = None THEN 1
    ELSE CASE risk_assessment[1][1] = "Critical" -> 4
           [] risk_assessment[1][1] = "High" -> 3
           [] risk_assessment[1][1] = "Medium" -> 2
           [] OTHER -> 1

(* C25: an ExemptionWorkflowSaga enters ExemptionGranted only when the     *)
(* approvals recorded on it are at least as many as its assessed risk      *)
(* level requires                                                          *)
C25_GrantedOnlyWithRequiredApprovals ==
    (/\ saga.saga_type = "ExemptionWorkflowSaga"
     /\ saga.last.op # "new"
     /\ saga.last.before # "ExemptionGranted"
     /\ saga.current_state = "ExemptionGranted") =>
        Len(saga.approvals) >= SpecRequiredApprovals(saga.risk_assessment)

(* The saga as it was in the state the last call found it in, as far as    *)
(* is_complete and has_failed read it                                      *)
SagaBefore == [saga EXCEPT !.current_state = saga.last.before]

(* C26: once is_complete() or has_failed() is true of a saga, no later     *)
(* apply_event call changes its current_state                              *)
C26_TerminalStatesAreFinal ==
    (/\ saga.last.op = "apply_event"
     /\ PolicySaga_is_complete(SagaBefore) \/ PolicySaga_has_failed(SagaBefore)) =>
        saga.current_state = saga.last.before

---------------------------------------------------------------------------
(* sagas/mod.rs: CompositeSaga.  The composite is a record of its          *)
(* sub-sagas, its state and its completion criterion; metadata is left     *)
(* out and the Markov chain is the edge set new() fills.                   *)

(* sagas/mod.rs: CompletionCriteria *)
CompletionCriteria_All == [tag |-> "All"]
CompletionCriteria_Any == [tag |-> "Any"]
CompletionCriteria_Majority == [tag |-> "Majority"]
CompletionCriteria_AtLeast(n) == [tag |-> "AtLeast", n |-> n]

(* CompositeSaga::new: the edges given a non-zero probability *)
CompositeSaga_markov_chain ==
    {<<"Initiated", "InProgress">>, <<"InProgress", "Completed">>,
     <<"InProgress", "Failed">>, <<"InProgress", "Waiting">>,
     <<"Waiting", "InProgress">>, <<"Waiting", "Failed">>}

(* CompositeSaga::new *)
CompositeSaga_new(criteria) ==
    [saga_type |-> "CompositeSaga", sub_sagas |-> <<>>,
     current_state |-> "Initiated", completion_criteria |-> criteria,
     last |-> Constructed]

(* CompositeSaga::add_sub_saga *)
CompositeSaga_add_sub_saga(c, s) == [c EXCEPT !.sub_sagas = Append(@, s)]

(* self.sub_sagas.iter().filter(|s| s.is_complete()).count() *)
CountComplete(sub_sagas) ==
    Cardinality({i \in 1..Len(sub_sagas) : PolicySaga_is_complete(sub_sagas[i])})

(* A variant of check_completion where half of the sub-sagas are a         *)
(* majority                                                                *)
CompositeSaga_check_completion_HalfIsMajority(c) ==
    CASE c.completion_criteria.tag = "All" ->
           \A i \in 1..Len(c.sub_sagas) : PolicySaga_is_complete(c.sub_sagas[i])
      [] c.completion_criteria.tag = "Any" ->
           \E i \in 1..Len(c.sub_sagas) : PolicySaga_is_complete(c.sub_sagas[i])
      [] c.completion_criteria.tag = "Majority" ->
           2 * CountComplete(c.sub_sagas) >= Len(c.sub_sagas)
      [] c.completion_criteria.tag = "AtLeast" ->
           CountComplete(c.sub_sagas) >= c.completion_criteria.n

(* CompositeSaga::check_completion *)
CompositeSaga_check_completion(c) ==
    CASE c.completion_criteria.tag = "All" ->
           \A i \in 1..Len(c.sub_sagas) : PolicySaga_is_complete(c.sub_sagas[i])
      [] c.completion_criteria.tag = "Any" ->
           \E i \in 1..Len(c.sub_sagas) : PolicySaga_is_complete(c.sub_sagas[i])
      [] c.completion_criteria.tag = "Majority" ->
           CountComplete(c.sub_sagas) > Len(c.sub_sagas) \div 2
      [] c.completion_criteria.tag = "AtLeast" ->
           CountComplete(c.sub_sagas) >= c.completion_criteria.n

(* for saga in &mut self.sub_sagas of coordinate: the sub-sagas after      *)
(* apply_event, the commands collected and the errors written to stderr    *)
RECURSIVE ApplyToSubSagas(_, _)
ApplyToSubSagas(sub_sagas, event) ==
    IF sub_sagas = <<>>
    THEN [sub_sagas |-> <<>>, commands |-> <<>>, errors |-> <<>>]
    ELSE LET applied == PolicySaga_apply_event(Head(sub_sagas), event)
             rest == ApplyToSubSagas(Tail(sub_sagas), event)
         IN  [sub_sagas |-> <<applied.saga>> \o rest.sub_sagas,
              commands |-> PolicySaga_get_commands(applied.saga) \o rest.commands,
              errors |-> (IF applied.result.ok THEN <<>>
                          ELSE <<applied.result.error>>) \o rest.errors]

(* A variant of the state update of coordinate that tests has_failed       *)
(* before the completion criterion                                         *)
CompositeSaga_update_state_FailedFirst(c) ==
    [c EXCEPT !.current_state =
        IF \E i \in 1..Len(c.sub_sagas) : PolicySaga_has_failed(c.sub_sagas[i])
        THEN "Failed"
        ELSE IF CompositeSaga_check_completion(c) THEN "Completed"
        ELSE IF \A i \in 1..Len(c.sub_sagas) : c.sub_sagas[i].current_state = "Waiting"
        THEN "Waiting"
        ELSE "InProgress"]

(* CompositeSaga::coordinate, the update of the composite state *)
CompositeSaga_update_state(c) ==
    [c EXCEPT !.current_state =
        IF CompositeSaga_check_completion(c) THEN "Completed"
        ELSE IF \E i \in 1..Len(c.sub_sagas) : PolicySaga_has_failed(c.sub_sagas[i])
        THEN "Failed"
        ELSE IF \A i \in 1..Len(c.sub_sagas) : c.sub_sagas[i].current_state = "Waiting"
        THEN "Waiting"
        ELSE "InProgress"]

(* CompositeSaga::coordinate: the composite after the call, its result and *)
(* the errors it wrote to stderr                                           *)
CompositeSaga_coordinate(c, event) ==
    LET applied == ApplyToSubSagas(c.sub_sagas, event)
    IN  [saga |-> CompositeSaga_update_state(
                      [c EXCEPT !.sub_sagas = applied.sub_sagas]),
         result |-> Ok(applied.commands),
         errors |-> applied.errors]

---------------------------------------------------------------------------
(* SpecComposite: a composite saga that is given sub-sagas and events      *)

(* The criteria a composite saga is created with *)
CompositeCriteria ==
    {CompletionCriteria_All, CompletionCriteria_Any, CompletionCriteria_Majority,
     CompletionCriteria_AtLeast(1), CompletionCriteria_AtLeast(2)}

(* The sagas handed to add_sub_saga: one new saga of each type *)
SubSagaChoices ==
    <<PolicyApprovalSaga_new("p1"),
      PolicyEnforcementSaga_new(<<"p1">>, CompositionRule_All),
      ExemptionWorkflowSaga_new("p1"),
      ComplianceAuditSaga_new(<<"p1">>)>>

(* The events handed to coordinate *)
CompositeEvents ==
    <<[type |-> "PolicyCreated", policy_id |-> "p1"],
      [type |-> "PolicyApproved", policy_id |-> "p1"],
      [type |-> "PolicyActivated", policy_id |-> "p1"],
      [type |-> "PolicyEvaluated", policy_id |-> "p1", result |-> Compliant],
      [type |-> "PolicyEvaluated", policy_id |-> "p1",
       result |-> NonCompliant(<<SagaViolation("Low")>>)],
      [type |-> "PolicyExemptionGranted", policy_id |-> "p1",
       exemption_id |-> "e1", valid_until |-> 0],
      [type |-> "PolicyExemptionRevoked", policy_id |-> "p1",
       exemption_id |-> "e1"]>>

InitComposite ==
    /\ focus = "Policy"
    /\ policy = Policy_new("p1", "new", "new", 0)
    /\ policySet = PolicySet_new("s1", "new", "new", 0)
    /\ exemption = PolicyExemption_new("e1", "p1", "new", "new", "admin", MaxTime, 0)
    /\ ret = [op |-> "new", arg |-> "", ok |-> TRUE]
    /\ store = <<>>
    /\ loaded = NotLoaded
    /\ now = 0
    /\ registered = [p \in PolicyIds |-> <<>>]
    /\ evaluated = NotEvaluated
    /\ resolving = NotResolving
    /\ \E criteria \in CompositeCriteria : saga = CompositeSaga_new(criteria)

(* composite.add_sub_saga(Box::new(saga)) *)
CompositeAddSubSaga ==
    /\ Len(saga.sub_sagas) < MaxSubSagas
    /\ \E i \in 1..Len(SubSagaChoices) :
           saga' = [CompositeSaga_add_sub_saga(saga, SubSagaChoices[i]) EXCEPT
                        !.last = [op |-> "add_sub_saga",
                                  before |-> saga.current_state]]
    /\ UNCHANGED <<aggregateVars, ret, repositoryVars, now, evaluatorVars,
                   resolving>>

(* The findings of every audit sub-saga stay within the bound *)
FindingsBounded(c) ==
    \A i \in 1..Len(c.sub_sagas) :
        c.sub_sagas[i].saga_type = "ComplianceAuditSaga" =>
            Len(c.sub_sagas[i].findings) <= MaxFindings

(* composite.coordinate(&event) *)
CompositeCoordinate ==
    \E i \in 1..Len(CompositeEvents) :
        LET coordinated == CompositeSaga_coordinate(saga, CompositeEvents[i])
        IN  /\ FindingsBounded(coordinated.saga)
            /\ saga' = [coordinated.saga EXCEPT
                            !.last = [op |-> "coordinate",
                                      before |-> saga.current_state,
                                      result |-> coordinated.result,
                                      errors |-> coordinated.errors]]
            /\ UNCHANGED <<aggregateVars, ret, repositoryVars, now,
                           evaluatorVars, resolving>>

NextComposite ==
    \/ CompositeAddSubSaga
    \/ CompositeCoordinate

SpecComposite == InitComposite /\ [][NextComposite]_vars

---------------------------------------------------------------------------
(* Claims about the composite saga, checked under SpecComposite *)

(* The completion criterion holds over the sub-sagas' is_complete(): All,  *)
(* every one; Any, at least one; Majority, more than half; AtLeast(n), at  *)
(* least n                                                                 *)
SpecCriterionMet(c) ==
    LET complete == CountComplete(c.sub_sagas)
        total == Len(c.sub_sagas)
    IN  CASE c.completion_criteria.tag = "All" -> complete = total
          [] c.completion_criteria.tag = "Any" -> complete >= 1
          [] c.completion_criteria.tag = "Majority" -> 2 * complete > total
          [] c.completion_criteria.tag = "AtLeast" ->
               complete >= c.completion_criteria.n

(* Some sub-saga reports has_failed() *)
SomeSubSagaFailed(c) ==
    \E i \in 1..Len(c.sub_sagas) : PolicySaga_has_failed(c.sub_sagas[i])

(* The state the completion criterion and the sub-sagas call for *)
SpecCompositeState(c) ==
    IF SpecCriterionMet(c) THEN "Completed"
    ELSE IF SomeSubSagaFailed(c) THEN "Failed"
    ELSE IF \A i \in 1..Len(c.sub_sagas) : c.sub_sagas[i].current_state = "Waiting"
    THEN "Waiting"
    ELSE "InProgress"

(* C27: after coordinate(event) the composite state is Completed if the    *)
(* completion criterion holds over the sub-sagas' is_complete() (All:      *)
(* every one, Any: at least one, Majority: more than half, AtLeast(n): at  *)
(* least n), otherwise Failed if some sub-saga has failed, otherwise       *)
(* Waiting if every sub-saga is Waiting, otherwise InProgress              *)
C27_CoordinateState ==
    saga.last.op = "coordinate" => saga.current_state = SpecCompositeState(saga)

(* coordinate returned on two sub-sagas one of which is complete, which    *)
(* is no majority                                                          *)
C27_Witness ==
    /\ saga.last.op = "coordinate"
    /\ saga.completion_criteria.tag = "Majority"
    /\ Len(saga.sub_sagas) = 2
    /\ CountComplete(saga.sub_sagas) = 1
    /\ saga.current_state = "InProgress"

(* C28: whenever some sub-saga reports has_failed() after coordinate, the  *)
(* composite saga's state is Failed                                        *)
C28_FailedSubSagaFailsComposite ==
    (saga.last.op = "coordinate" /\ SomeSubSagaFailed(saga)) =>
        saga.current_state = "Failed"

(* C28, amended: whenever some sub-saga reports has_failed() after         *)
(* coordinate, the composite saga's state is Failed unless the completion  *)
(* criterion is met, and Completed when it is                              *)
C28_FailedSubSagaFailsIncompleteComposite ==
    (saga.last.op = "coordinate" /\ SomeSubSagaFailed(saga)) =>
        saga.current_state = IF SpecCriterionMet(saga) THEN "Completed" ELSE "Failed"

(* coordinate returned with a failed sub-saga and the criterion unmet *)
C28_Witness ==
    /\ saga.last.op = "coordinate"
    /\ SomeSubSagaFailed(saga)
    /\ ~SpecCriterionMet(saga)
    /\ saga.current_state = "Failed"

(* C29: if a sub-saga's apply_event returns an error during coordinate,    *)
(* coordinate returns an error to its caller, not Ok                       *)
C29_SubSagaErrorIsReturned ==
    (saga.last.op = "coordinate" /\ saga.last.errors # <<>>) =>
        ~saga.last.result.ok

(* The saga holds a result for each of its policies *)
AuditedEveryPolicy(s) ==
    \A i \in 1..Len(s.policy_ids) : s.policy_ids[i] \in DOMAIN s.audit_results

(* The overall status the findings and the results of the saga's policies  *)
(* call for: CriticalNonCompliance if a finding is Critical, else          *)
(* FullyCompliant if every policy is compliant, else PartiallyCompliant if *)
(* more than half are, else NonCompliant                                   *)
SpecComplianceStatus(s) ==
    LET policies == {s.policy_ids[i] : i \in 1..Len(s.policy_ids)}
        compliant ==
            Cardinality({p \in policies :
                             ComplianceResult_is_compliant(s.audit_results[p])})
    IN  IF \E i \in 1..Len(s.findings) : s.findings[i].severity = "Critical"
        THEN "CriticalNonCompliance"
        ELSE IF compliant = Cardinality(policies) THEN "FullyCompliant"
        ELSE IF 2 * compliant > Cardinality(policies) THEN "PartiallyCompliant"
        ELSE "NonCompliant"

(* C30: once a ComplianceAuditSaga holds a result for each of its          *)
(* policies, its overall status is the one its findings and results call   *)
(* for, and its state is ComplianceVerified when the status is             *)
(* FullyCompliant and NonCompliant for every other status                  *)
C30_AuditStatusAndState ==
    (saga.saga_type = "ComplianceAuditSaga" /\ AuditedEveryPolicy(saga)) =>
        /\ saga.overall_compliance = Some(SpecComplianceStatus(saga))
        /\ saga.current_state =
               IF SpecComplianceStatus(saga) = "FullyCompliant"
               THEN "ComplianceVerified" ELSE "NonCompliant"


(* The enforcement saga holds a result for each of its policies *)
EvaluatedEveryPolicy(s) ==
    \A i \in 1..Len(s.policy_ids) :
        s.policy_ids[i] \in DOMAIN s.evaluation_results

(* The decision the composition rule calls for, with c of the saga's t     *)
(* policies compliant                                                      *)
SpecEnforcementDecision(s) ==
    LET policies == {s.policy_ids[i] : i \in 1..Len(s.policy_ids)}
        t == Cardinality(policies)
        c == Cardinality({p \in policies :
                 ComplianceResult_is_compliant(s.evaluation_results[p])})
        rule == s.composition_rule
    IN  CASE rule.tag = "All" -> IF c = t THEN "Allow" ELSE "Block"
          [] rule.tag = "Any" -> IF c >= 1 THEN "Allow" ELSE "Block"
          [] rule.tag = "Majority" ->
               IF 2 * c > t THEN "AllowWithWarning" ELSE "Block"
          [] rule.tag = "AtLeast" -> IF c >= rule.n THEN "Allow" ELSE "Block"

(* C31: when a PolicyEnforcementSaga holds a result for each of its        *)
(* policies, its decision is the one its composition rule calls for, and   *)
(* its state is Allowed for Allow and AllowWithWarning and Blocked for     *)
(* Block                                                                   *)
C31_EnforcementDecisionAndState ==
    (saga.saga_type = "PolicyEnforcementSaga" /\ EvaluatedEveryPolicy(saga)) =>
        /\ saga.enforcement_decision = Some(SpecEnforcementDecision(saga))
        /\ saga.current_state =
               IF SpecEnforcementDecision(saga) = "Block"
               THEN "Blocked" ELSE "Allowed"


---------------------------------------------------------------------------
(* Repository claims on the events of one exemption                        *)

(* The two events of exemption e1 among RepositoryEvents *)
GrantedE1 ==
    CHOOSE e \in RepositoryEvents : e.type = "PolicyExemptionGranted"
RevokedE1 ==
    CHOOSE e \in RepositoryEvents : e.type = "PolicyExemptionRevoked"

(* The stream after ExemptionRepository.save of [PolicyExemptionGranted    *)
(* for e1, PolicyExemptionRevoked for e1] has succeeded on an empty stream *)
SavedGrantedThenRevoked ==
    store = <<NatsEventStore_message(GrantedE1),
              NatsEventStore_message(RevokedE1)>>

(* ExemptionRepository.load(e1) has read every message of its consumer *)
LoadedExemptionE1 ==
    /\ loaded # NotLoaded
    /\ loaded.repo = "PolicyExemption" /\ loaded.id = "e1"
    /\ loaded.read /\ loaded.complete

(* C32: after ExemptionRepository.save of [PolicyExemptionGranted for E,   *)
(* PolicyExemptionRevoked for E] succeeds, load(E) returns the exemption   *)
(* rebuilt from both events, with status Revoked                           *)
C32_ExemptionLoadedByItsId ==
    (SavedGrantedThenRevoked /\ LoadedExemptionE1) =>
        /\ loaded.history = <<GrantedE1, RevokedE1>>
        /\ loaded.result.ok
        /\ loaded.result.value # None
        /\ loaded.result.value[1].status = "Revoked"


(* C33: PolicyApprovalSaga.apply_event of an event about a policy other    *)
(* than the saga's own returns Ok and leaves current_state unchanged       *)
C33_OtherPolicyEventsAreIgnored ==
    (/\ saga.saga_type = "PolicyApprovalSaga"
     /\ saga.last.op = "apply_event"
     /\ saga.last.event.policy_id # saga.policy_id) =>
        /\ saga.last.result.ok
        /\ saga.current_state = saga.last.before


(* The results an enforcement or audit saga has recorded *)
SagaResultsOf(s) ==
    IF s.saga_type = "PolicyEnforcementSaga"
    THEN s.evaluation_results ELSE s.audit_results

(* Every listed policy id has received a result, and no other id has *)
EveryListedPolicyHasResult(s) ==
    /\ \A i \in 1..Len(s.policy_ids) : s.policy_ids[i] \in DOMAIN SagaResultsOf(s)
    /\ \A p \in DOMAIN SagaResultsOf(s) : Contains(s.policy_ids, p)

(* The saga has made its decision *)
SagaHasDecided(s) ==
    IF s.saga_type = "PolicyEnforcementSaga"
    THEN s.enforcement_decision # None ELSE s.overall_compliance # None

(* C34: for every list of policy ids given to a PolicyEnforcementSaga or   *)
(* ComplianceAuditSaga, once every listed policy id has received a result  *)
(* the saga has made its decision and is_complete() is true                *)
C34_DecidedOnceEveryPolicyHasResult ==
    (/\ saga.saga_type \in {"PolicyEnforcementSaga", "ComplianceAuditSaga"}
     /\ EveryListedPolicyHasResult(saga)) =>
        /\ SagaHasDecided(saga)
        /\ PolicySaga_is_complete(saga)


(* The latest result of every audited policy is compliant: audit_results   *)
(* keeps, for each policy, the result inserted last                        *)
EveryLatestResultCompliant(s) ==
    \A p \in DOMAIN s.audit_results :
        ComplianceResult_is_compliant(s.audit_results[p])

(* C35: whenever a ComplianceAuditSaga holds a result for exactly its      *)
(* policies, each listed once, and the latest result of every policy is    *)
(* compliant, the overall status is FullyCompliant and the state is        *)
(* ComplianceVerified                                                      *)
C35_LatestResultsDecideOutcome ==
    (/\ saga.saga_type = "ComplianceAuditSaga"
     /\ EveryListedPolicyHasResult(saga)
     /\ HashMap_len(saga.audit_results) = Len(saga.policy_ids)
     /\ EveryLatestResultCompliant(saga)) =>
        /\ saga.overall_compliance = Some("FullyCompliant")
        /\ saga.current_state = "ComplianceVerified"


---------------------------------------------------------------------------
(* Conflict detection and the order of its input                           *)

(* The conflict types a list of conflicts reports *)
ConflictTypesOf(conflicts) ==
    {conflicts[i].conflict_type : i \in 1..Len(conflicts)}

(* C36: for any two policies A and B, detect_conflicts([A, B]) reports a   *)
(* conflict of a given type exactly when detect_conflicts([B, A]) does     *)
C36_DetectionIgnoresInputOrder ==
    (/\ resolving.called
     /\ resolving.op = "detect_conflicts"
     /\ Len(resolving.policies) = 2) =>
        ConflictTypesOf(resolving.result) =
            ConflictTypesOf(PolicyConflictResolver_detect_conflicts(
                resolving.strategy,
                <<resolving.policies[2], resolving.policies[1]>>,
                resolving.at))


---------------------------------------------------------------------------
(* The granting step of the exemption workflow                             *)

(* The sagas whose callers keep calling: some operation that changes the   *)
(* saga or the clock is taken as long as one is possible                   *)
SpecSagasFair == SpecSagas /\ WF_vars(NextSagas)

(* The saga is in ExemptionUnderReview with risk assessment, justification *)
(* and sufficient approvals recorded, and get_commands() holds a           *)
(* GrantExemption command                                                  *)
GrantingStep ==
    /\ saga.saga_type = "ExemptionWorkflowSaga"
    /\ saga.current_state = "ExemptionUnderReview"
    /\ saga.risk_assessment # None
    /\ saga.business_justification # None
    /\ ExemptionWorkflowSaga_has_sufficient_approvals(saga)
    /\ HasCommand(ExemptionWorkflowSaga_get_commands(saga), "GrantExemption")

(* No operation and no event puts an exemption workflow under review: the  *)
(* state ExemptionUnderReview is named by the Markov chain, by             *)
(* available_transitions and by get_commands, and assigned nowhere         *)
NeverUnderReview ==
    saga.saga_type = "ExemptionWorkflowSaga" =>
        /\ saga.current_state # "ExemptionUnderReview"
        /\ ~HasCommand(ExemptionWorkflowSaga_get_commands(saga), "GrantExemption")

(* C37: an exemption workflow that starts in ExemptionRequested and whose  *)
(* callers keep calling reaches its granting step: ExemptionUnderReview    *)
(* with risk assessment, justification and sufficient approvals recorded   *)
(* and a GrantExemption command from get_commands()                        *)
C37_GrantingStepIsReached ==
    (saga.saga_type = "ExemptionWorkflowSaga"
         /\ saga.current_state = "ExemptionRequested") ~> GrantingStep


(* get_commands() holds an EnforcePolicy command carrying the action *)
HasEnforceCommand(commands, action) ==
    \E i \in 1..Len(commands) :
        /\ commands[i].type = "EnforcePolicy"
        /\ commands[i].enforcement_action = action

(* C38: after a PolicyEnforcementSaga has made its enforcement decision,   *)
(* get_commands() returns an EnforcePolicy command carrying the            *)
(* enforcement action of that decision                                     *)
C38_DecisionIsEnforced ==
    (/\ saga.saga_type = "PolicyEnforcementSaga"
     /\ saga.enforcement_decision # None
     /\ saga.last.op = "get_commands") =>
        HasEnforceCommand(saga.last.commands, saga.enforcement_decision[1])


(* C39: once a CompositeSaga's state is Completed, it is Completed again   *)
(* after every further coordinate call, for any event, as long as no       *)
(* sub-saga is added in between: a coordinate call that follows a          *)
(* coordinate call which left the composite Completed leaves it Completed  *)
C39_CompletedStaysCompleted ==
    [][(/\ saga.current_state = "Completed"
        /\ saga.last.op = "coordinate"
        /\ saga'.last.op = "coordinate") =>
           saga'.current_state = "Completed"]_vars

(* coordinate was called on a Completed composite whose exemption sub-saga *)
(* had been granted; the call revoked the exemption, the sub-saga moved to *)
(* ExemptionDenied and the composite is Completed again                    *)
C39_Witness ==
    /\ saga.last.op = "coordinate"
    /\ saga.last.before = "Completed"
    /\ saga.current_state = "Completed"
    /\ Len(saga.sub_sagas) = 2
    /\ \E i \in 1..Len(saga.sub_sagas) :
           /\ saga.sub_sagas[i].saga_type = "ExemptionWorkflowSaga"
           /\ saga.sub_sagas[i].current_state = "ExemptionDenied"
    /\ \E i \in 1..Len(saga.sub_sagas) :
           /\ saga.sub_sagas[i].saga_type = "PolicyEnforcementSaga"
           /\ saga.sub_sagas[i].current_state = "Blocked"


---------------------------------------------------------------------------
(* A batch whose save fails                                                *)

(* C40: PolicyRepository.save of a batch is all-or-nothing: when appending *)
(* an event of the batch fails, save returns an error and a later load of  *)
(* any aggregate returns the events it returned before the save, none of   *)
(* the batch's                                                             *)
C40_FailedSaveStoresNothing ==
    [][(ret'.op = "save" /\ ret'.arg = "Policy" /\ ~ret'.ok) =>
           \A id \in LoadIds :
               NatsEventStore_load_events(store', id) =
                   NatsEventStore_load_events(store, id)]_vars

=============================================================================
